---- MODULE Spec2Model ----
(***************************************************************************)
(* Model of the autodiscovery-sources pipeline: the JSON registry          *)
(* (RegistryFsAdapter), the filesystem mirror (MirrorFsAdapter and the     *)
(* older FileSystemMirror), and the two DiscoverSourceUseCase              *)
(* implementations that drive them.                                        *)
(***************************************************************************)
EXTENDS Integers, Sequences, FiniteSets, TLC

(***************************************************************************)
(* Bounds of the model                                                     *)
(***************************************************************************)
MaxCalls == 2

MaxEvents == 1

(***************************************************************************)
(* Python None for optional fields                                         *)
(***************************************************************************)
NoneStr == "<None>"
NoneNum == -1
NonePath == << >>

(***************************************************************************)
(* Source keys.  K0 has no contract.                                       *)
(***************************************************************************)
K0 == "k0"
K1 == "k1"
K2 == "k2"
SourceKeys == {K1, K2}

(***************************************************************************)
(* Byte strings are sequences of chunks; hashlib.sha256(...).hexdigest()   *)
(* is tabulated (first 8 hex digits of the real digests).                  *)
(***************************************************************************)
Chunks == {"a", "b"}
Contents == {<<>>} \cup {<<c>> : c \in Chunks} \cup {<<c, d>> : c \in Chunks, d \in Chunks}

\* len() of a body: one chunk is 1024 bytes
ChunkBytes == 1024

len(content) == ChunkBytes * Len(content)

sha256_bytes(data) ==
    CASE data = <<>> -> "e3b0c442"
      [] data = <<"a">> -> "ca978112"
      [] data = <<"b">> -> "3e23e816"
      [] data = <<"a", "a">> -> "961b6dd3"
      [] data = <<"a", "b">> -> "fb8e20fc"
      [] data = <<"b", "a">> -> "970f519c"
      [] data = <<"b", "b">> -> "3b64db95"
      [] OTHER -> "ffffffff"

(***************************************************************************)
(* str.lower() on the strings of the model                                 *)
(***************************************************************************)
Lower(s) ==
    CASE s = "961B6DD3" -> "961b6dd3"
      [] s = "3B64DB95" -> "3b64db95"
      [] s = "Application/PDF" -> "application/pdf"
      [] s = "Report 1" -> "report 1"
      [] s = "Report 2" -> "report 2"
      [] s = "More" -> "more"
      [] s = "Back" -> "back"
      [] OTHER -> s

HexStrings == {"e3b0c442", "ca978112", "3e23e816", "961b6dd3", "fb8e20fc",
               "970f519c", "3b64db95", "961B6DD3", "3B64DB95"}

MimeStrings == {"application/pdf", "Application/PDF", "application/vnd.ms-excel",
                "application/json", "text/html", "text/plain", "image/png"}

(***************************************************************************)
(* URLs of the modelled site                                               *)
(***************************************************************************)
START == "https://h/p"
SUB == "https://h/p/sub"
F1 == "https://h/d/r-2025-11-01.xls"
F2 == "https://h/d/r-2025-11-02.xls"
API == "https://h/api/v1"
\* further files of the site, not linked from its pages
G1 == "https://h/d/informe-2025-11-02.xls"
G2 == "https://h/d/r-2025-11-02.pdf"
G3 == "https://h/d/informe-monetario.xls"
G4 == "https://h/e/r-2025-11-02.xls"
Urls == {START, SUB, F1, F2, API, G1, G2, G3, G4}
\* a second group of pages: a hub that links itself, a download link without
\* extension, a page of another host and a page of a subdomain
HUB == "https://h/q"
DL == "https://h/q/download"
OFF == "https://other/q"
WWW == "https://www.h/q"
CrawlUrls == Urls \cup {HUB, DL, OFF, WWW}

(***************************************************************************)
(* Value objects (domain/value_objects.py).  A constructor returns the     *)
(* validated value, or the marker Invalid when the validator raises.       *)
(***************************************************************************)
Invalid == "<ValueError>"

Url(v) == IF v \in Urls THEN v ELSE Invalid

Sha256(v) == IF v \in HexStrings THEN Lower(v) ELSE Invalid

MimeType(v) == IF v \in MimeStrings THEN Lower(v) ELSE Invalid

BytesSizeKB(v) == IF v >= 0 THEN v ELSE NoneNum - 1

(***************************************************************************)
(* JSON values.  A string is (s, n, p): n carries the instant of an         *)
(* ISO-8601 timestamp string (s = "T"), p the components of a relative     *)
(* path string key/version/filename (s = "/").  "obj" is the object        *)
(* {"value": ...}.                                                         *)
(***************************************************************************)
JStr(s) == [t |-> "str", s |-> s, n |-> 0, p |-> << >>]
JIso(n) == [t |-> "str", s |-> "T", n |-> n, p |-> << >>]
JPath(p) == [t |-> "str", s |-> "/", n |-> 0, p |-> p]
JNum(n) == [t |-> "num", s |-> "", n |-> n, p |-> << >>]
JNull == [t |-> "null", s |-> "", n |-> 0, p |-> << >>]
JObjStr(s) == [t |-> "obj", s |-> s, n |-> 0, p |-> << >>]
JObjNum(n) == [t |-> "objnum", s |-> "", n |-> n, p |-> << >>]

EntryFields == {"key", "url", "version", "filename", "mime", "size_kb", "sha256",
                "last_checked", "status", "notes", "s3_key"}

Statuses == {"ok", "suspect", "broken"}

(***************************************************************************)
(* RegistryEntry.model_dump(mode="json"): nested value objects become      *)
(* {"value": ...} objects, the datetime an ISO string.                     *)
(***************************************************************************)
model_dump(entry) ==
    [key |-> JStr(entry.key),
     url |-> JObjStr(entry.url),
     version |-> JStr(entry.version),
     filename |-> JStr(entry.filename),
     mime |-> IF entry.mime = NoneStr THEN JNull ELSE JObjStr(entry.mime),
     size_kb |-> IF entry.size_kb = NoneNum THEN JNull ELSE JObjNum(entry.size_kb),
     sha256 |-> JObjStr(entry.sha256),
     last_checked |-> JIso(entry.last_checked),
     status |-> JStr(entry.status),
     notes |-> IF entry.notes = NoneStr THEN JNull ELSE JStr(entry.notes),
     s3_key |-> IF entry.s3_key = NonePath THEN JNull ELSE JPath(entry.s3_key)]

(***************************************************************************)
(* upsert, lines 86-97: the dumped dict with the value objects flattened   *)
(* to plain strings / numbers.                                             *)
(***************************************************************************)
entry_dict(entry) ==
    LET d == model_dump(entry) IN
    [d EXCEPT
       !.url = IF d.url.t \in {"obj", "objnum"} THEN JStr(entry.url) ELSE @,
       !.sha256 = IF d.sha256.t \in {"obj", "objnum"} THEN JStr(entry.sha256) ELSE @,
       !.mime = IF d.mime.t \in {"obj", "objnum"} THEN JStr(entry.mime) ELSE @,
       !.size_kb = IF d.size_kb.t \in {"obj", "objnum"} THEN JNum(entry.size_kb) ELSE @]

(***************************************************************************)
(* get_by_key, lines 112-131: field conversions and the RegistryEntry ctor.  *)
(* The result is a set: empty when the method returns None.                *)
(***************************************************************************)
ParseStr(j) == IF j.t = "str" /\ j.s \notin {"T", "/"} THEN j.s ELSE Invalid

InvalidPath == <<Invalid>>

ParseOptPath(j) ==
    IF j.t = "null" THEN NonePath
    ELSE IF j.t = "str" /\ j.s = "/" THEN j.p ELSE InvalidPath

ParseOptStr(j) == IF j.t = "null" THEN NoneStr ELSE ParseStr(j)

ParseUrl(j) == IF j.t \in {"str", "obj"} THEN Url(j.s) ELSE Invalid

ParseSha(j) == IF j.t \in {"str", "obj"} THEN Sha256(j.s) ELSE Invalid

ParseMime(j) ==
    IF j.t = "null" THEN NoneStr
    ELSE IF j.t \in {"str", "obj"} THEN MimeType(j.s) ELSE Invalid

ParseSize(j) ==
    IF j.t = "null" THEN NoneNum
    ELSE IF j.t \in {"num", "objnum"} THEN BytesSizeKB(j.n) ELSE NoneNum - 1

ParseDatetime(j) == IF j.t = "str" /\ j.s = "T" THEN j.n ELSE NoneNum - 1

ParseStatus(j) == IF j.t = "str" /\ j.s \in Statuses THEN j.s ELSE Invalid

RegistryEntry(d) ==
    LET e == [key |-> ParseStr(d.key),
              url |-> ParseUrl(d.url),
              version |-> ParseStr(d.version),
              filename |-> ParseStr(d.filename),
              mime |-> ParseMime(d.mime),
              size_kb |-> ParseSize(d.size_kb),
              sha256 |-> ParseSha(d.sha256),
              last_checked |-> ParseDatetime(d.last_checked),
              status |-> ParseStatus(d.status),
              notes |-> ParseOptStr(d.notes),
              s3_key |-> ParseOptPath(d.s3_key)]
    IN  IF \/ \E f \in {"key", "url", "version", "filename", "mime", "sha256",
                       "status", "notes"} : e[f] = Invalid
           \/ e.s3_key = InvalidPath
           \/ e.size_kb < NoneNum
           \/ e.last_checked < NoneNum
        THEN {}
        ELSE {e}

(***************************************************************************)
(* The site: static attributes of the URLs (urlparse, filenames, links).   *)
(***************************************************************************)
netloc(u) ==
    CASE u = OFF -> "other"
      [] u = WWW -> "www.h"
      [] OTHER -> "h"

path(u) ==
    CASE u = START -> "/p"
      [] u = SUB -> "/p/sub"
      [] u = F1 -> "/d/r-2025-11-01.xls"
      [] u = F2 -> "/d/r-2025-11-02.xls"
      [] u = G1 -> "/d/informe-2025-11-02.xls"
      [] u = G2 -> "/d/r-2025-11-02.pdf"
      [] u = G3 -> "/d/informe-monetario.xls"
      [] u = G4 -> "/e/r-2025-11-02.xls"
      [] u \in {HUB, OFF, WWW} -> "/q"
      [] u = DL -> "/q/download"
      [] OTHER -> "/api/v1"

\* str.startswith / str.endswith / substring tests on the strings of the model
StartsWith(s, prefix) ==
    \/ prefix = "/"
    \/ s = prefix
    \/ prefix = "/p" /\ s \in {"/p", "/p/sub"}
    \/ prefix = "/q" /\ s \in {"/q", "/q/download"}
    \/ prefix = "/d" /\ s \in {"/d/r-2025-11-01.xls", "/d/r-2025-11-02.xls",
                             "/d/informe-2025-11-02.xls", "/d/r-2025-11-02.pdf",
                             "/d/informe-monetario.xls"}

EndsWith(s, suffix) ==
    \/ suffix = ".xls" /\ s \in {"/d/r-2025-11-01.xls", "/d/r-2025-11-02.xls",
                                  "r-2025-11-01.xls", "r-2025-11-02.xls",
                                  "/d/informe-2025-11-02.xls", "informe-2025-11-02.xls",
                                  "/d/informe-monetario.xls", "informe-monetario.xls",
                                  "/e/r-2025-11-02.xls"}
    \/ suffix = ".pdf" /\ s \in {"/d/r-2025-11-02.pdf", "r-2025-11-02.pdf"}
    \/ suffix = ".json" /\ s \in {"k1.json", "k2.json"}
    \/ suffix = ".h" /\ s = "www.h"

\* f".{allowed_domain}"
Dotted(d) == IF d = "h" THEN ".h" ELSE ".other"

Contains(s, token) ==
    \/ s = token
    \/ token = "r-" /\ s \in {F1, F2, G2, G4}
    \/ token = "report" /\ s \in {"report 1", "report 2"}
    \/ token = "informe" /\ s \in {G1, "/d/informe-2025-11-02.xls",
                                    G3, "/d/informe-monetario.xls"}
    \/ token = "monetario" /\ s \in {G3, "/d/informe-monetario.xls"}
    \/ token = "." /\ s \in {"r-2025-11-01.xls", "r-2025-11-02.xls", "k1.json", "k2.json",
                              "informe-2025-11-02.xls", "r-2025-11-02.pdf",
                              "informe-monetario.xls"}

\* Crawler._extract_filename for a URL without Content-Disposition
extract_filename(u) ==
    CASE u = START -> "p"
      [] u = SUB -> "sub"
      [] u = F1 -> "r-2025-11-01.xls"
      [] u \in {F2, G4} -> "r-2025-11-02.xls"
      [] u = G1 -> "informe-2025-11-02.xls"
      [] u = G2 -> "r-2025-11-02.pdf"
      [] u = G3 -> "informe-monetario.xls"
      [] u \in {HUB, OFF, WWW} -> "q"
      [] u = DL -> "download"
      [] OTHER -> "v1"

\* HtmlPort.extract_links on the body of a page: (href, text) pairs
extract_links(u) ==
    CASE u = START -> << <<F1, "Report 1">>, <<SUB, "More">>, <<F2, "Report 2">> >>
      [] u = SUB -> << <<F2, "Report 2">>, <<START, "Back">> >>
      [] u = HUB -> << <<HUB, "self">>, <<DL, "download">>, <<OFF, "other">>,
                       <<WWW, "mirror">>, <<F1, "report 1">>, <<START, "home">> >>
      [] u = OFF -> << <<F2, "report 2">> >>
      [] u = WWW -> << <<HUB, "back">>, <<G2, "report 2">> >>
      [] OTHER -> << >>

\* urljoin_safe: the URLs of the site carry no character that quote() escapes
urljoin_safe(base, relative) == relative

content_type(u) ==
    CASE u \in {START, SUB, HUB, OFF, WWW} -> "text/html"
      [] u \in {F1, F2, G1, G3, G4, DL} -> "application/vnd.ms-excel"
      [] u = G2 -> "application/pdf"
      [] OTHER -> "application/json"

(***************************************************************************)
(* Dates are day numbers; DateStr is strftime("%Y-%m-%d").                 *)
(***************************************************************************)
DateStr(d) ==
    CASE d = 1 -> "2025-11-01"
      [] d = 2 -> "2025-11-02"
      [] d = 3 -> "2025-11-03"
      [] OTHER -> "2025-11-04"

P_DATE == "r-(\\d{4}-\\d{2}-\\d{2})\\.xls"
P_ISO == "(\\d{4}-\\d{2}-\\d{2})"
P_REM == "REM(\\d{2})(\\d{2})(\\d{2,4})"
P_COMPACT == "(\\d{4})(\\d{2})(\\d{2})"

\* the date one regex yields on a filename (re.search and the branches of
\* date_from_filename); NoneNum when the pattern gives no date
PatternDate(pattern, filename) ==
    CASE pattern \in {P_DATE, P_ISO} /\ filename = "r-2025-11-01.xls" -> 1
      [] pattern \in {P_DATE, P_ISO} /\ filename = "r-2025-11-02.xls" -> 2
      [] pattern = P_ISO /\ filename \in {"informe-2025-11-02.xls", "r-2025-11-02.pdf"} -> 2
      [] OTHER -> NoneNum

RECURSIVE date_from_filename(_, _)
date_from_filename(filename, regexes) ==
    IF regexes = << >> THEN NoneNum
    ELSE IF PatternDate(Head(regexes), filename) # NoneNum
         THEN PatternDate(Head(regexes), filename)
         ELSE date_from_filename(filename, Tail(regexes))

\* headers are records [ctype, clen, lm, lmfmt, cdisp]; ctype and cdisp are ""
\* and clen and lm NoneNum when the header is absent; lmfmt tells whether the text ends in a zone name ("rfc1123", as
\* servers send it) or in the empty %Z of a naive datetime ("naive")
NoHeaders ==
    [ctype |-> "", clen |-> NoneNum, lm |-> NoneNum, lmfmt |-> "rfc1123", cdisp |-> ""]

\* datetime.strptime(text, "%a, %d %b %Y %H:%M:%S %Z"): NoneNum on ValueError
strptime_http(lm, lmfmt) == IF lm # NoneNum /\ lmfmt = "rfc1123" THEN lm ELSE NoneNum

from_last_modified(headers) == strptime_http(headers.lm, headers.lmfmt)

date_from_filename_or_last_modified(filename, regexes, headers) ==
    IF date_from_filename(filename, regexes) # NoneNum
    THEN date_from_filename(filename, regexes)
    ELSE from_last_modified(headers)

best_effort_date_or_last_modified(filename, regexes, headers) ==
    IF date_from_filename(filename, regexes) # NoneNum
    THEN date_from_filename(filename, regexes)
    ELSE IF date_from_filename(filename, <<P_ISO, P_REM, P_COMPACT>>) # NoneNum
         THEN date_from_filename(filename, <<P_ISO, P_REM, P_COMPACT>>)
         ELSE from_last_modified(headers)

date_today(today) == DateStr(today)

\* Versioning.extract_version
extract_version(versioning_strategy, filename, patterns, headers, today) ==
    LET orUnknown(d) == IF d = NoneNum THEN "unknown" ELSE DateStr(d) IN
    CASE versioning_strategy = "date_today" -> date_today(today)
      [] versioning_strategy = "date_from_filename_or_last_modified" ->
            orUnknown(date_from_filename_or_last_modified(filename, patterns, headers))
      [] versioning_strategy = "none" -> "none"
      [] OTHER -> orUnknown(best_effort_date_or_last_modified(filename, patterns, headers))

(***************************************************************************)
(* HTTP port.  w maps each URL to the response the server gives now:       *)
(* [ok, head, body, lm, ctype, haslen, cdisp].  A call returns its error   *)
(* flag with the payload.                                                  *)
(***************************************************************************)
ResponseHeaders(w, u) ==
    [ctype |-> w[u].ctype,
     clen |-> IF w[u].haslen THEN len(w[u].body) ELSE NoneNum,
     lm |-> w[u].lm, lmfmt |-> "rfc1123", cdisp |-> w[u].cdisp]

http_head(w, u) ==
    IF w[u].ok /\ w[u].head
    THEN [error |-> FALSE, headers |-> ResponseHeaders(w, u)]
    ELSE [error |-> TRUE, headers |-> NoHeaders]

http_get(w, u) ==
    IF w[u].ok
    THEN [error |-> FALSE, content |-> w[u].body, headers |-> ResponseHeaders(w, u)]
    ELSE [error |-> TRUE, content |-> << >>, headers |-> NoHeaders]

(***************************************************************************)
(* Candidates (DiscoveredFile)                                             *)
(***************************************************************************)
DiscoveredFile(key, url, filename, score) ==
    [key |-> key, url |-> url, filename |-> filename, mime |-> NoneStr,
     size_kb |-> NoneNum, last_modified |-> NoneNum, score |-> score,
     notes |-> NoneStr]

\* BytesSizeKB.from_bytes
from_bytes(bytes_size) == BytesSizeKB(bytes_size \div 1024)

(***************************************************************************)
(* Crawler.crawl                                                           *)
(***************************************************************************)
FILE_EXTENSIONS == <<".xls", ".xlsx", ".xlsm", ".pdf", ".zip">>

AnyIn(seq, P(_)) == \E i \in 1..Len(seq) : P(seq[i])

prefilter_match(url, text, link_text_any, url_tokens_any) ==
    \/ link_text_any # << >> /\ AnyIn(link_text_any, LAMBDA tok : Contains(Lower(text), Lower(tok)))
    \/ url_tokens_any # << >> /\ AnyIn(url_tokens_any, LAMBDA tok : Contains(Lower(url), Lower(tok)))
    \/ link_text_any = << >> /\ url_tokens_any = << >>

\* every host is allowed
domain_matches_all(u, allow_domains) == TRUE

\* lines 82-91
domain_matches(u, allow_domains) ==
    \/ allow_domains = << >>
    \/ AnyIn(allow_domains, LAMBDA d : netloc(u) = d \/ EndsWith(netloc(u), Dotted(d)))

path_matches(u, allow_paths_any) ==
    \/ allow_paths_any = << >>
    \/ AnyIn(allow_paths_any, LAMBDA p : StartsWith(path(u), p))

is_file_link(u) == AnyIn(FILE_EXTENSIONS, LAMBDA ext : EndsWith(Lower(path(u)), ext))

\* the loop over the links of one page (crawler.py lines 132-168)
RECURSIVE LinksLoop(_, _, _, _, _, _)
LinksLoop(links, current_url, depth, find, max_depth, st) ==
    IF links = << >> THEN st
    ELSE LET href == Head(links)[1]
             text == Head(links)[2]
             normalized == urljoin_safe(current_url, href)
             rest == Tail(links)
         IN  IF href \in st.visited
             THEN LinksLoop(rest, current_url, depth, find, max_depth, st)
             ELSE IF ~prefilter_match(href, text, find.link_text_any, find.url_tokens_any)
             THEN LinksLoop(rest, current_url, depth, find, max_depth, st)
             ELSE IF is_file_link(normalized)
             THEN LinksLoop(rest, current_url, depth, find, max_depth,
                    [st EXCEPT !.candidates =
                        Append(@, DiscoveredFile("", normalized, extract_filename(normalized), 0))])
             ELSE IF depth < max_depth
             THEN LinksLoop(rest, current_url, depth, find, max_depth,
                    [st EXCEPT !.queue = Append(@, <<normalized, depth + 1>>)])
             ELSE LinksLoop(rest, current_url, depth, find, max_depth, st)

\* every URL counts as new
already_visited_never(current_url, visited) == FALSE

\* line 73: "if current_url in visited"
already_visited(current_url, visited) == current_url \in visited

\* line 69: the condition of the while loop
crawl_continues(max_candidates, st) ==
    st.queue # << >> /\ Len(st.candidates) < max_candidates

\* one turn of the while loop (crawler.py lines 70-168);
\* st = [queue, visited, candidates, fetched, depths]
crawl_step(w, scope, find, max_depth, st) ==
    LET current_url == Head(st.queue)[1]
        depth == Head(st.queue)[2]
        popped == [st EXCEPT !.queue = Tail(@)]
        got == http_get(w, current_url)
        seen == [popped EXCEPT !.visited = @ \cup {current_url},
                               !.fetched = Append(@, current_url),
                               !.depths = Append(@, depth)]
    IN  IF \/ already_visited(current_url, st.visited)
           \/ depth > max_depth
           \/ ~domain_matches(current_url, scope.allow_domains)
           \/ ~path_matches(current_url, scope.allow_paths_any)
        THEN popped
        ELSE IF got.error \/ got.content = << >>
        THEN seen
        ELSE IF got.headers.ctype # "text/html"
        THEN [seen EXCEPT !.candidates =
                 Append(@, DiscoveredFile("", current_url, extract_filename(current_url), 0))]
        ELSE LinksLoop(extract_links(current_url), current_url, depth, find, max_depth, seen)

\* the while loop (crawler.py lines 69-168)
RECURSIVE CrawlLoop(_, _, _, _, _, _)
CrawlLoop(w, scope, find, max_depth, max_candidates, st) ==
    IF ~crawl_continues(max_candidates, st) THEN st
    ELSE CrawlLoop(w, scope, find, max_depth, max_candidates,
                   crawl_step(w, scope, find, max_depth, st))

\* line 176: candidates[:max_candidates]
truncate(candidates, max_candidates) ==
    SubSeq(candidates, 1, IF Len(candidates) < max_candidates
                          THEN Len(candidates) ELSE max_candidates)

\* lines 49-55: the state of the loop before its first turn
crawl_begin(start_urls) ==
    [queue |-> [i \in 1..Len(start_urls) |-> <<start_urls[i], 0>>],
     visited |-> {}, candidates |-> << >>, fetched |-> << >>, depths |-> << >>]

crawl(w, start_urls, scope, find, max_depth, max_candidates) ==
    LET st == CrawlLoop(w, scope, find, max_depth, max_candidates, crawl_begin(start_urls))
    IN  [candidates |-> truncate(st.candidates, max_candidates),
         fetched |-> st.fetched]

(***************************************************************************)
(* Ranker.rank                                                             *)
(***************************************************************************)
STRONG_TOKENS == {"rem", "infomondia", "infomodia", "series",
                  "publicacionesestadisticas", "tablas", "resultados",
                  "informe", "monetario"}

Min(a, b) == IF a < b THEN a ELSE b

score_of(candidate, patterns) ==
    Min(100,
        (IF AnyIn(<<".xlsx", ".xlsm", ".xls", ".pdf">>,
                  LAMBDA ext : EndsWith(Lower(candidate.filename), ext)) THEN 30 ELSE 0)
        + 10 * Cardinality({tok \in STRONG_TOKENS : Contains(Lower(candidate.url), tok)})
        + (IF date_from_filename(candidate.filename, patterns) # NoneNum THEN 20 ELSE 0)
        + 5 * Cardinality({tok \in STRONG_TOKENS : Contains(Lower(path(candidate.url)), tok)}))

\* sorted(..., reverse=True) on <<sort key, item>> pairs: stable, descending
RECURSIVE InsertDesc(_, _)
InsertDesc(sorted, x) ==
    IF sorted = << >> THEN <<x>>
    ELSE IF Head(sorted)[1] >= x[1]
         THEN <<Head(sorted)>> \o InsertDesc(Tail(sorted), x)
         ELSE <<x>> \o sorted

RECURSIVE SortedPairsDesc(_)
SortedPairsDesc(pairs) ==
    IF pairs = << >> THEN << >>
    ELSE InsertDesc(SortedPairsDesc(SubSeq(pairs, 1, Len(pairs) - 1)), pairs[Len(pairs)])

SortedDesc(seq, K(_)) ==
    LET sorted == SortedPairsDesc([i \in 1..Len(seq) |-> <<K(seq[i]), seq[i]>>])
    IN  [i \in 1..Len(seq) |-> sorted[i][2]]

rank(candidates, patterns) ==
    SortedDesc([i \in 1..Len(candidates) |->
                   [candidates[i] EXCEPT !.score = score_of(candidates[i], patterns)]],
               LAMBDA c : c.score)

(***************************************************************************)
(* Validator.validate                                                      *)
(***************************************************************************)
check_mime(expected_any, got) ==
    \/ expected_any = << >>
    \/ got # NoneStr /\ AnyIn(expected_any, LAMBDA e : Lower(e) = Lower(got))

\* the size check switched off
check_min_size_off(min_kb, got_kb) == TRUE

check_min_size(min_kb, got_kb) ==
    \/ min_kb <= 0
    \/ got_kb # NoneNum /\ got_kb >= min_kb

\* "if error:" after the HEAD: no fallback at all
head_failed_never(h) == FALSE

\* "if error:" after the HEAD
head_failed(h) == h.error

\* one iteration of the loop: the candidate with its metadata, and whether
\* it is kept (validator.py lines 36-119)
validate_one(w, candidate, expect) ==
    LET h == http_head(w, candidate.url)
        g == http_get(w, candidate.url)
        fallback == head_failed(h)
        headers == IF fallback THEN g.headers ELSE h.headers
        sized == IF fallback
                 THEN [candidate EXCEPT
                         !.notes = "head_failed_get_ok",
                         !.size_kb = IF g.content # << >> THEN from_bytes(len(g.content)) ELSE @]
                 ELSE [candidate EXCEPT
                         !.size_kb = IF headers.clen # NoneNum THEN from_bytes(headers.clen) ELSE @]
        filled == [sized EXCEPT
                     !.mime = IF headers.ctype # "" /\ MimeType(headers.ctype) # Invalid
                              THEN MimeType(headers.ctype) ELSE @,
                     !.last_modified = IF strptime_http(headers.lm, headers.lmfmt) # NoneNum
                                       THEN strptime_http(headers.lm, headers.lmfmt) ELSE @]
    IN  [candidate |-> filled,
         headed |-> TRUE,
         got |-> fallback,
         valid |-> /\ ~(fallback /\ g.error)
                   /\ check_mime(expect.mime_any, filled.mime)
                   /\ check_min_size(expect.min_size_kb, filled.size_kb)]

RECURSIVE validate(_, _, _)
validate(w, candidates, expect) ==
    IF candidates = << >> THEN << >>
    ELSE LET r == validate_one(w, Head(candidates), expect)
         IN  (IF r.valid THEN <<r.candidate>> ELSE << >>)
             \o validate(w, Tail(candidates), expect)

(***************************************************************************)
(* SelectionPolicy and Selector.select                                     *)
(***************************************************************************)
InSeq(x, seq) == \E i \in 1..Len(seq) : seq[i] = x

\* append to result the candidates whose filename ends in ext (every
\* candidate when ext = "") and that result does not hold yet
RECURSIVE AppendNew(_, _, _)
AppendNew(result, candidates, ext) ==
    IF candidates = << >> THEN result
    ELSE AppendNew(IF /\ ext = "" \/ EndsWith(Lower(Head(candidates).filename), Lower(ext))
                      /\ ~InSeq(Head(candidates), result)
                   THEN Append(result, Head(candidates)) ELSE result,
                   Tail(candidates), ext)

\* ext if ext.startswith(".") else "." + ext
NormalizeExt(ext) ==
    CASE ext = "xls" -> ".xls"
      [] ext = "pdf" -> ".pdf"
      [] ext = "json" -> ".json"
      [] OTHER -> ext

RECURSIVE PreferExtLoop(_, _, _)
PreferExtLoop(result, candidates, extensions) ==
    IF extensions = << >> THEN result
    ELSE PreferExtLoop(AppendNew(result, candidates, NormalizeExt(Head(extensions))),
                       candidates, Tail(extensions))

prefer_ext(candidates, extensions) ==
    IF extensions = << >> THEN candidates
    ELSE AppendNew(PreferExtLoop(<< >>, candidates, extensions), candidates, "")

newest_by_last_modified(candidates) ==
    SortedDesc(candidates, LAMBDA c : IF c.last_modified = NoneNum THEN 0
                                      ELSE c.last_modified)[1]

\* the <<date, candidate>> pairs whose date is not None, in order
RECURSIVE DatedOnly(_)
DatedOnly(pairs) ==
    IF pairs = << >> THEN << >>
    ELSE (IF Head(pairs)[1] # NoneNum THEN <<Head(pairs)>> ELSE << >>)
         \o DatedOnly(Tail(pairs))

with_dates(candidates, D(_)) ==
    DatedOnly([i \in 1..Len(candidates) |-> <<D(candidates[i]), candidates[i]>>])

prefer_newest_by(candidates, method, headers, regexes) ==
    LET dated(D(_)) ==
            IF with_dates(candidates, D) # << >>
            THEN SortedPairsDesc(with_dates(candidates, D))[1][2]
            ELSE newest_by_last_modified(candidates)
    IN  IF Len(candidates) = 1 THEN candidates[1]
        ELSE CASE method = "last_modified" -> newest_by_last_modified(candidates)
               [] method = "date_from_filename_or_last_modified" ->
                    dated(LAMBDA c : date_from_filename_or_last_modified(c.filename, regexes, headers))
               [] method = "best_effort_date_or_last_modified" ->
                    dated(LAMBDA c : best_effort_date_or_last_modified(c.filename, regexes, headers))
               [] OTHER -> candidates[1]

\* the Last-Modified the selector rebuilds from the first candidate that has
\* one: strftime of a naive datetime, so its %Z is empty
selector_headers(candidates) ==
    LET have == {i \in 1..Len(candidates) : candidates[i].last_modified # NoneNum} IN
    IF have = {} THEN NoHeaders
    ELSE [NoHeaders EXCEPT
            !.lm = candidates[CHOOSE i \in have : \A j \in have : i <= j].last_modified,
            !.lmfmt = "naive"]

\* Selector.select on a non-empty list
select(candidates, select_config, patterns) ==
    IF Len(candidates) = 1 THEN candidates[1]
    ELSE LET preferred == IF select_config.prefer_ext # << >>
                          THEN prefer_ext(candidates, select_config.prefer_ext)
                          ELSE candidates
         IN  prefer_newest_by(preferred, select_config.prefer_newest_by,
                              selector_headers(preferred), patterns)

(***************************************************************************)
(* Contracts                                                               *)
(***************************************************************************)
BaseContract ==
    [source_type |-> "html",
     start_urls |-> <<START>>,
     known_urls |-> << >>,
     endpoint |-> NoneStr,
     scope |-> [allow_domains |-> <<"h">>, allow_paths_any |-> << >>,
                max_depth |-> 2, max_candidates |-> 10],
     find |-> [link_text_any |-> << >>, url_tokens_any |-> << >>],
     patterns |-> <<P_DATE>>,
     select |-> [prefer_ext |-> <<"xls">>,
                 prefer_newest_by |-> "date_from_filename_or_last_modified"],
     expect |-> [mime_any |-> <<"application/vnd.ms-excel">>, min_size_kb |-> 1],
     versioning |-> "date_from_filename_or_last_modified",
     mirror |-> TRUE]

ContractSet ==
    {BaseContract,
     [BaseContract EXCEPT !.versioning = "date_today", !.known_urls = <<F1>>],
     [BaseContract EXCEPT !.start_urls = << >>],
     [BaseContract EXCEPT !.mirror = FALSE, !.patterns = << >>,
                          !.versioning = "none"],
     [BaseContract EXCEPT !.expect.min_size_kb = 5],
     [BaseContract EXCEPT !.source_type = "api", !.endpoint = API,
                          !.versioning = "date_today"]}

(***************************************************************************)
(* Files of the registry directory.  A file is [exists, complete, data,    *)
(* meta]: data maps the source keys to their JSON entries, meta is the     *)
(* updated_at of the "_metadata" object (NoneNum when there is none), and  *)
(* complete is FALSE while the text is not a whole JSON document.          *)
(***************************************************************************)
NoFile == [exists |-> FALSE, complete |-> FALSE, data |-> << >>, meta |-> NoneNum]

EmptyRegistry == [exists |-> TRUE, complete |-> TRUE, data |-> << >>, meta |-> NoneNum]

Put(m, k, v) == [x \in (DOMAIN m) \cup {k} |-> IF x = k THEN v ELSE m[x]]

\* RegistryFsAdapter._read_registry
read_registry(file) ==
    IF ~file.exists THEN [error |-> FALSE, data |-> << >>, meta |-> NoneNum]
    ELSE IF ~file.complete THEN [error |-> TRUE, data |-> << >>, meta |-> NoneNum]
    ELSE [error |-> FALSE, data |-> file.data, meta |-> file.meta]

\* RegistryFsAdapter.get_by_key: {} is None (a RegistryError is raised when
\* the file cannot be parsed)
get_by_key(file, key) ==
    LET r == read_registry(file) IN
    IF r.error \/ key \notin DOMAIN r.data THEN {}
    ELSE RegistryEntry(r.data[key])

\* RegistryFsAdapter.list_keys
list_keys(file) == DOMAIN read_registry(file).data

(***************************************************************************)
(* Entries used by direct callers of upsert and registries found at start  *)
(***************************************************************************)
MkEntry(key, url, version, filename, mime, size_kb, sha, last_checked, status, notes, s3_key) ==
    [key |-> key, url |-> Url(url), version |-> version, filename |-> filename,
     mime |-> IF mime = NoneStr THEN NoneStr ELSE MimeType(mime),
     size_kb |-> IF size_kb = NoneNum THEN NoneNum ELSE BytesSizeKB(size_kb),
     sha256 |-> Sha256(sha), last_checked |-> last_checked, status |-> status,
     notes |-> notes, s3_key |-> s3_key]

NoEntry ==
    [key |-> NoneStr, url |-> NoneStr, version |-> NoneStr, filename |-> NoneStr,
     mime |-> NoneStr, size_kb |-> NoneNum, sha256 |-> NoneStr,
     last_checked |-> NoneNum, status |-> NoneStr, notes |-> NoneStr,
     s3_key |-> NonePath]

ClientEntries(today) ==
    {MkEntry(k, F1, "2025-11-01", "r-2025-11-01.xls", NoneStr, NoneNum,
             "961B6DD3", today, "ok", NoneStr, NonePath) : k \in SourceKeys}
    \cup
    {MkEntry(k, F2, "2025-11-02", "r-2025-11-02.xls", "Application/PDF", 0,
             "3b64db95", today, "suspect", "head_failed_get_ok", NonePath) : k \in SourceKeys}

OldEntry == MkEntry(K2, F1, "2025-11-01", "r-2025-11-01.xls", "application/pdf", 2,
                    "961b6dd3", 0, "ok", NoneStr, NonePath)

OldRegistry ==
    [EmptyRegistry EXCEPT !.data = Put(<< >>, K2, entry_dict(OldEntry)), !.meta = 0]

InitRegistries ==
    {EmptyRegistry,
     OldRegistry,
     \* written by hand: nested value objects, upper-case digest
     [EmptyRegistry EXCEPT !.data = Put(<< >>, K2,
         [model_dump(OldEntry) EXCEPT !.sha256 = JObjStr("961B6DD3")])],
     \* an entry get_by_key cannot build
     [EmptyRegistry EXCEPT !.data = Put(<< >>, K2,
         [entry_dict(OldEntry) EXCEPT !.url = JNull])]}

(***************************************************************************)
(* State                                                                   *)
(***************************************************************************)
VARIABLES
    regFile,    \* registry.json
    tmpFile,    \* registry.tmp, the temp file of _write_registry
    th,         \* per thread: the upsert call it is executing
    active,     \* the threads that call the registry
    mirror,     \* the mirror tree: path <<key, version, filename>> -> bytes
    web,        \* the responses the HTTP server gives now
    now,        \* the clock (a day number)
    contracts,  \* key -> contract
    run,        \* the execution of DiscoverSourceUseCase (autodiscovery_sources)
    cnt,        \* counters that bound the model
    hist,       \* history kept for the properties
    lrun,       \* the execution of DiscoverSourceUseCase (autodiscovery)
    legacyReg,  \* the registry behind RegistryRepository: key -> entry
    mtmp,       \* the mkstemp file of atomic_write_stream
    call        \* the call of a single component (selector, validator, HTTP client)

legacyVars == <<lrun, legacyReg, mtmp>>

packageVars == <<regFile, tmpFile, th, active, contracts, run>>

\* everything but call
systemVars == <<regFile, tmpFile, th, active, mirror, web, now, contracts, run, cnt,
                hist, lrun, legacyReg, mtmp>>

vars == <<regFile, tmpFile, th, active, mirror, web, now, contracts, run, cnt, hist,
          lrun, legacyReg, mtmp, call>>

\* no component call is being observed
NoCall == [op |-> "none"]

Threads == {"t1", "t2"}

MAIN == "t1"

UpsertPcs == {"read", "open", "dump", "flush", "replace"}

IdleThread ==
    [pc |-> "idle", entry |-> NoEntry, data |-> << >>, meta |-> NoneNum,
     pre |-> NoFile, res |-> "none", caller |-> "none", target |-> "none"]

\* the headers every response of the sites carries unless said otherwise: the
\* Content-Type of a spreadsheet, a Content-Length, no Content-Disposition
R_A == [ok |-> TRUE, head |-> TRUE, body |-> <<"a", "a">>, lm |-> NoneNum,
        ctype |-> "application/vnd.ms-excel", haslen |-> TRUE, cdisp |-> ""]
R_B == [R_A EXCEPT !.body = <<"b", "b">>, !.lm = 3]
R_NOHEAD == [R_A EXCEPT !.head = FALSE]
R_DOWN == [R_A EXCEPT !.ok = FALSE, !.head = FALSE, !.body = << >>]

\* the response r as the site serves it at u: with the Content-Type of u
Served(u, r) == [r EXCEPT !.ctype = content_type(u)]

InitialResponse == R_A

\* what the server may start to answer: <<url, response>>
Changes ==
    {<<START, R_DOWN>>, <<F2, R_B>>, <<F2, R_NOHEAD>>, <<F2, R_DOWN>>, <<API, R_B>>}

NoLegacyFile ==
    [url |-> NoneStr, version |-> NoneStr, filename |-> NoneStr, mime |-> NoneStr,
     size_kb |-> NoneNum]

NoLegacyEntry ==
    [key |-> NoneStr, url |-> NoneStr, version |-> NoneStr, mime |-> NoneStr,
     size_kb |-> NoneNum, sha256 |-> NoneStr, status |-> NoneStr, notes |-> NoneStr,
     stored_path |-> NonePath, s3_key |-> NoneStr, last_checked |-> NoneNum]

NoTemp == [exists |-> FALSE, bytes |-> << >>]

IdleLegacyRun ==
    [pc |-> "idle", key |-> NoneStr, pre |-> << >>, did |-> {},
     discovered |-> NoLegacyFile, status |-> NoneStr, notes |-> NoneStr,
     content |-> << >>, written |-> 0, path |-> NonePath,
     stored_path |-> NonePath, sha256 |-> NoneStr,
     success |-> FALSE, error |-> NoneStr, entry |-> NoLegacyEntry,
     mirrorFailed |-> FALSE, calls |-> 0]

IdleRun ==
    [pc |-> "idle", kind |-> "none", key |-> NoneStr, fast |-> FALSE,
     pre |-> NoFile, env |-> << >>, today |-> 0,
     selected |-> DiscoveredFile(NoneStr, NoneStr, NoneStr, 0),
     content |-> << >>, written |-> 0, path |-> NonePath,
     entry |-> NoEntry, outcome |-> "none", mirrorFailed |-> FALSE,
     wrote |-> FALSE]

InitCommon ==
    /\ tmpFile = NoFile
    /\ th = [t \in Threads |-> IdleThread]
    /\ mirror = << >>
    /\ run = IdleRun
    /\ cnt = [calls |-> 0, events |-> 0]
    /\ hist = [crashAt |-> "none", first |-> << >>, complete |-> {}, prev |-> << >>,
               repeated |-> FALSE]
    /\ lrun = IdleLegacyRun
    /\ mtmp = NoTemp

\* the use case on one thread, the contract of K1 any of ContractSet
Init ==
    /\ InitCommon
    /\ legacyReg = << >>
    /\ call = NoCall
    /\ now = 1
    /\ web = [u \in Urls |-> Served(u, InitialResponse)]
    /\ active = {MAIN}
    /\ regFile = OldRegistry
    /\ \/ \E c \in ContractSet :
             contracts = [k \in SourceKeys |-> IF k = K1 THEN c ELSE BaseContract]
       \/ contracts = [k \in {K2} |-> BaseContract]

\* callers of the registry adapter on one thread
InitRegistry ==
    /\ InitCommon
    /\ legacyReg = << >>
    /\ call = NoCall
    /\ now = 1
    /\ web = [u \in Urls |-> Served(u, InitialResponse)]
    /\ active = {MAIN}
    /\ regFile \in InitRegistries
    /\ contracts = [k \in SourceKeys |-> BaseContract]

\* the use case of the package autodiscovery
InitLegacy ==
    /\ InitCommon
    /\ legacyReg = << >>
    /\ call = NoCall
    /\ now = 1
    /\ web = [u \in Urls |-> Served(u, InitialResponse)]
    /\ active = {MAIN}
    /\ regFile = EmptyRegistry
    /\ contracts = [k \in SourceKeys |-> BaseContract]

\* callers of the registry adapter on two threads
InitConc ==
    /\ InitCommon
    /\ legacyReg = << >>
    /\ call = NoCall
    /\ now = 1
    /\ web = [u \in Urls |-> Served(u, InitialResponse)]
    /\ active = Threads
    /\ regFile \in InitRegistries
    /\ contracts = [k \in SourceKeys |-> BaseContract]

(***************************************************************************)
(* RegistryFsAdapter.upsert, one step per file-system operation            *)
(***************************************************************************)
\* the use case returns with this outcome
FinishRun(r, outcome) ==
    [r EXCEPT !.pc = "idle", !.outcome = outcome,
              !.wrote = (outcome = "ok")]

\* the inputs of a run: the flag, the responses of the server and the clock,
\* when neither changed while the run lasted
RunInputs(r) ==
    [fast |-> r.fast, env |-> r.env, today |-> r.today,
     stable |-> web = r.env /\ now = r.today]

\* the bytes of a mirror file, << >> when the file does not exist
BytesAt(files, p) == IF p \in DOMAIN files THEN files[p] ELSE << >>

\* the run repeats the last successful run of its key with the same inputs
Repeats(r) ==
    /\ r.key \in DOMAIN hist.prev
    /\ RunInputs(r).stable
    /\ hist.prev[r.key].inputs = RunInputs(r)

\* what the caller of a finished upsert sees
ReturnToCaller(t, outcome) ==
    IF th[t].caller = "discover"
    THEN /\ run' = FinishRun(run, outcome)
         /\ hist' = IF outcome = "ok"
                    THEN [hist EXCEPT
                            !.prev = Put(@, run.key,
                                [inputs |-> RunInputs(run),
                                 url |-> run.entry.url, version |-> run.entry.version,
                                 sha256 |-> run.entry.sha256,
                                 bytes |-> BytesAt(mirror, run.path)]),
                            !.repeated = @ \/ Repeats(run)]
                    ELSE hist
    ELSE UNCHANGED <<run, hist>>

\* a direct call of upsert(entry)
UpsertBegin(t, entry) ==
    /\ t \in active
    /\ th[t].pc = "idle"
    /\ t = MAIN => run.pc = "idle"
    /\ cnt.calls < MaxCalls
    /\ th' = [th EXCEPT ![t] = [IdleThread EXCEPT !.pc = "read", !.entry = entry,
                                                 !.pre = regFile, !.caller = "client"]]
    /\ cnt' = [cnt EXCEPT !.calls = @ + 1]
    /\ UNCHANGED <<regFile, tmpFile, active, mirror, web, now, contracts, run, hist>>
    /\ UNCHANGED <<legacyVars, call>>

\* data = {entry.key: entry_dict}
upsert_data_fresh(data, entry) == Put(<< >>, entry.key, entry_dict(entry))

\* upsert line 100: data[entry.key] = entry_dict
upsert_data(data, entry) == Put(data, entry.key, entry_dict(entry))

\* lines 84-103: data = self._read_registry(); data[entry.key] = entry_dict;
\* data["_metadata"] = {...}
UpsertRead(t) ==
    /\ th[t].pc = "read"
    /\ LET r == read_registry(regFile) IN
       IF r.error
       THEN /\ th' = [th EXCEPT ![t].pc = "idle", ![t].res = "RegistryError"]
            /\ ReturnToCaller(t, "RegistryError")
       ELSE /\ th' = [th EXCEPT ![t].pc = "open",
                                ![t].data = upsert_data(r.data, th[t].entry),
                                ![t].meta = th[t].entry.last_checked]
            /\ UNCHANGED <<run, hist>>
    /\ UNCHANGED <<regFile, tmpFile, active, mirror, web, now, contracts, cnt>>
    /\ UNCHANGED <<legacyVars, call>>

\* open(self.registry_path, "w")
in_place_path == "reg"

\* _write_registry line 45: temp_path = self.registry_path.with_suffix(".tmp"),
\* the file "tmp" of the model ("reg" is the registry file)
temp_path == "tmp"

\* _write_registry line 46: open(temp_path, "w") creates or truncates
UpsertOpen(t) ==
    /\ th[t].pc = "open"
    /\ LET truncated == [exists |-> TRUE, complete |-> FALSE, data |-> << >>,
                         meta |-> NoneNum]
       IN  /\ tmpFile' = IF temp_path = "tmp" THEN truncated ELSE tmpFile
           /\ regFile' = IF temp_path = "reg" THEN truncated ELSE regFile
    /\ th' = [th EXCEPT ![t].pc = "dump", ![t].target = temp_path]
    /\ UNCHANGED <<active, mirror, web, now, contracts, run, cnt, hist>>
    /\ UNCHANGED <<legacyVars, call>>

\* the file a thread's open handle refers to, with new content
WriteThrough(t, content) ==
    /\ tmpFile' = IF th[t].target = "tmp" THEN content ELSE tmpFile
    /\ regFile' = IF th[t].target = "reg" THEN content ELSE regFile

\* line 47: json.dump, the text partly on disk
UpsertDump(t) ==
    /\ th[t].pc = "dump"
    /\ WriteThrough(t, [exists |-> TRUE, complete |-> FALSE,
                        data |-> th[t].data, meta |-> th[t].meta])
    /\ th' = [th EXCEPT ![t].pc = "flush"]
    /\ UNCHANGED <<active, mirror, web, now, contracts, run, cnt, hist>>
    /\ UNCHANGED <<legacyVars, call>>

\* end of the with block: the rest of the text is written and the file closed;
\* the document is whole unless another handle is writing the same file
UpsertFlush(t) ==
    /\ th[t].pc = "flush"
    /\ WriteThrough(t, [exists |-> TRUE,
                        complete |-> ~\E o \in Threads \ {t} :
                                        /\ th[o].pc \in {"dump", "flush"}
                                        /\ th[o].target = th[t].target,
                        data |-> th[t].data, meta |-> th[t].meta])
    /\ th' = [th EXCEPT ![t].pc = "replace"]
    /\ UNCHANGED <<active, mirror, web, now, contracts, run, cnt, hist>>
    /\ UNCHANGED <<legacyVars, call>>

\* line 48: temp_path.replace(self.registry_path)
UpsertReplace(t) ==
    /\ th[t].pc = "replace"
    /\ IF ~tmpFile.exists
       THEN /\ th' = [th EXCEPT ![t].pc = "idle", ![t].res = "RegistryError"]
            /\ ReturnToCaller(t, "RegistryError")
            /\ UNCHANGED <<regFile, tmpFile>>
       ELSE /\ regFile' = tmpFile
            /\ tmpFile' = NoFile
            /\ th' = [o \in Threads |->
                        IF o = t THEN [th[o] EXCEPT !.pc = "idle", !.res = "ok"]
                        ELSE [th[o] EXCEPT !.target =
                                CASE @ = "tmp" -> "reg"
                                  [] @ = "reg" -> "orphan"
                                  [] OTHER -> @]]
            /\ ReturnToCaller(t, "ok")
    /\ UNCHANGED <<active, mirror, web, now, contracts, cnt>>
    /\ UNCHANGED <<legacyVars, call>>

\* lines 49-50: an I/O exception anywhere in upsert becomes RegistryError
UpsertFail(t) ==
    /\ th[t].pc \in UpsertPcs
    /\ cnt.events < MaxEvents
    /\ cnt' = [cnt EXCEPT !.events = @ + 1]
    /\ th' = [th EXCEPT ![t].pc = "idle", ![t].res = "RegistryError"]
    /\ ReturnToCaller(t, "RegistryError")
    /\ UNCHANGED <<regFile, tmpFile, active, mirror, web, now, contracts>>
    /\ UNCHANGED <<legacyVars, call>>

(***************************************************************************)
(* The environment: the process is killed, the server changes, time passes *)
(***************************************************************************)
\* the process dies; the files stay as they are
Crash ==
    /\ cnt.events < MaxEvents
    /\ \E t \in active : th[t].pc # "idle"
    /\ th' = [t \in Threads |-> IdleThread]
    /\ run' = IF run.pc = "idle" THEN run ELSE FinishRun(run, "killed")
    /\ cnt' = [cnt EXCEPT !.events = @ + 1]
    /\ hist' = [hist EXCEPT !.crashAt = th[MAIN].pc]
    /\ UNCHANGED <<regFile, tmpFile, active, mirror, web, now, contracts>>
    /\ UNCHANGED <<legacyVars, call>>

\* the server starts to answer r for u.  The use case reads the responses when
\* it starts and when it downloads, so a change at any other moment is a
\* change before the next of these two.
ServerChange(u, r) ==
    /\ cnt.events < MaxEvents
    /\ run.pc \in {"idle", "download"}
    /\ web[u] # Served(u, r)
    /\ web' = [web EXCEPT ![u] = Served(u, r)]
    /\ cnt' = [cnt EXCEPT !.events = @ + 1]
    /\ UNCHANGED <<regFile, tmpFile, th, active, mirror, now, contracts, run, hist>>
    /\ UNCHANGED <<legacyVars, call>>

\* a day passes; the clock is read where the responses are read
Tick ==
    /\ cnt.events < MaxEvents
    /\ cnt' = [cnt EXCEPT !.events = @ + 1]
    /\ run.pc \in {"idle", "download"}
    /\ th[MAIN].pc \in {"idle", "read"}
    /\ now' = now + 1
    /\ UNCHANGED <<regFile, tmpFile, th, active, mirror, web, contracts, run, hist>>
    /\ UNCHANGED <<legacyVars, call>>

(***************************************************************************)
(* DiscoverSourceUseCase.execute (autodiscovery_sources)                   *)
(***************************************************************************)
\* f"{key}.json"
JsonName(key) == IF key = K1 THEN "k1.json" ELSE "k2.json"

\* _discover_api lines 112-115
api_filename(key, endpoint) ==
    IF Contains(extract_filename(endpoint), ".")
    THEN extract_filename(endpoint) ELSE JsonName(key)

\* _discover_html lines 188-204: candidates made from known_urls
known_candidates(key, known_urls) ==
    [i \in 1..Len(known_urls) |->
        DiscoveredFile(key, Url(known_urls[i]), extract_filename(known_urls[i]), 100)]

\* execute lines 69-73: fast mode overrides the scope
effective_contract(contract, fast) ==
    IF fast THEN [contract EXCEPT !.scope.max_depth = 1, !.scope.max_candidates = 1]
    ELSE contract

\* the known URLs appended whatever the crawl returned
with_known_urls_always(crawled, key, known_urls) ==
    crawled \o known_candidates(key, known_urls)

\* _discover_html lines 184-205: "if not candidates:" the known URLs become
\* the candidates
with_known_urls(crawled, key, known_urls) ==
    IF crawled = << >> THEN known_candidates(key, known_urls) ELSE crawled

\* _discover_html lines 182-233: crawl, known_urls, rank, validate, select.
\* The result is a sequence: empty when the method returns None here.
pipeline(w, key, contract) ==
    LET crawled == crawl(w, contract.start_urls, contract.scope, contract.find,
                         contract.scope.max_depth, contract.scope.max_candidates).candidates
        found == with_known_urls(crawled, key, contract.known_urls)
        keyed == [i \in 1..Len(found) |-> [found[i] EXCEPT !.key = key]]
        valid == validate(w, rank(keyed, contract.patterns), contract.expect)
    IN  IF valid = << >> THEN << >>
        ELSE <<select(valid, contract.select, contract.patterns)>>

\* the thread starts registry.upsert(entry) from inside the use case
CallUpsert(entry) ==
    th' = [th EXCEPT ![MAIN] = [IdleThread EXCEPT !.pc = "read", !.entry = entry,
                                                 !.pre = regFile, !.caller = "discover"]]

\* execute lines 58-81, and _discover_html up to the selection
DiscoverExecute(key, fast) ==
    /\ run.pc = "idle"
    /\ th[MAIN].pc = "idle"
    /\ LET base == [IdleRun EXCEPT !.key = key, !.fast = fast, !.pre = regFile,
                                   !.env = web, !.today = now]
       IN  IF key \notin DOMAIN contracts
           THEN run' = FinishRun(base, "ContractError")
           ELSE LET contract == effective_contract(contracts[key], fast) IN
                IF contract.source_type = "api"
                THEN IF contract.endpoint = NoneStr
                     THEN run' = FinishRun(base, "ContractError")
                     ELSE run' = [base EXCEPT !.pc = "download", !.kind = "api",
                                     !.selected = DiscoveredFile(key, contract.endpoint,
                                                     api_filename(key, contract.endpoint), 0)]
                ELSE IF contract.start_urls = << >>
                     THEN run' = FinishRun(base, "ContractError")
                     ELSE LET sel == pipeline(web, key, contract) IN
                          IF sel = << >>
                          THEN run' = FinishRun(base, "None")
                          ELSE run' = [base EXCEPT !.pc = "download", !.kind = "html",
                                                   !.selected = sel[1]]
    /\ UNCHANGED <<regFile, tmpFile, th, active, mirror, web, now, contracts, cnt, hist>>
    /\ UNCHANGED legacyVars

\* execute(key, fast) called from the command line
DiscoverStart(key, fast) ==
    /\ DiscoverExecute(key, fast)
    /\ UNCHANGED call

\* _discover_api lines 94-139 / _discover_html lines 236-250: GET, hash, version
Download ==
    /\ run.pc = "download"
    /\ LET contract == effective_contract(contracts[run.key], run.fast)
           g == http_get(web, run.selected.url)
           api == run.kind = "api"
           version == extract_version(contract.versioning,
                          IF api THEN "" ELSE run.selected.filename,
                          IF api THEN << >> ELSE contract.patterns, g.headers, now)
           entry == [key |-> run.key,
                     url |-> Url(run.selected.url),
                     version |-> version,
                     filename |-> run.selected.filename,
                     mime |-> IF api
                              THEN (IF g.headers.ctype # "" THEN MimeType(g.headers.ctype)
                                    ELSE NoneStr)
                              ELSE run.selected.mime,
                     size_kb |-> IF api THEN BytesSizeKB(len(g.content) \div 1024)
                                 ELSE run.selected.size_kb,
                     sha256 |-> Sha256(sha256_bytes(g.content)),
                     last_checked |-> now,
                     status |-> "ok",
                     notes |-> IF api THEN "api_source" ELSE run.selected.notes,
                     s3_key |-> NonePath]
       IN  IF g.error \/ g.content = << >>
           THEN /\ run' = FinishRun(run, "None")
                /\ UNCHANGED <<th, hist>>
           ELSE /\ hist' = [hist EXCEPT !.complete = @ \cup {g.content}]
                /\ IF contract.mirror
                   THEN /\ run' = [run EXCEPT !.pc = "mirror_open", !.content = g.content,
                                              !.entry = entry,
                                              !.path = <<run.key, version, run.selected.filename>>]
                        /\ UNCHANGED th
                   ELSE /\ run' = [run EXCEPT !.pc = "upsert", !.content = g.content,
                                              !.entry = entry]
                        /\ CallUpsert(entry)
    /\ UNCHANGED <<regFile, tmpFile, active, mirror, web, now, contracts, cnt>>
    /\ UNCHANGED <<legacyVars, call>>

(***************************************************************************)
(* MirrorFsAdapter.write, one step per file-system operation               *)
(***************************************************************************)
\* open(target_path, "ab") creates the target or keeps its bytes
open_ab(files, target_path) ==
    IF target_path \in DOMAIN files THEN files ELSE Put(files, target_path, << >>)

\* line 30: open(target_path, "wb") creates or truncates the target
open_wb(files, target_path) == Put(files, target_path, << >>)

MirrorOpen ==
    /\ run.pc = "mirror_open"
    /\ mirror' = open_wb(mirror, run.path)
    /\ run' = [run EXCEPT !.pc = "mirror_write", !.written = 0]
    /\ UNCHANGED <<regFile, tmpFile, th, active, web, now, contracts, cnt, hist>>
    /\ UNCHANGED <<legacyVars, call>>

\* line 31: f.write(content), a chunk reaches the disk
MirrorWrite ==
    /\ run.pc = "mirror_write"
    /\ run.written < Len(run.content)
    /\ mirror' = [mirror EXCEPT ![run.path] = Append(@, run.content[run.written + 1])]
    /\ run' = [run EXCEPT !.written = @ + 1]
    /\ UNCHANGED <<regFile, tmpFile, th, active, web, now, contracts, cnt, hist>>
    /\ UNCHANGED <<legacyVars, call>>

\* lines 33-36: the relative path is returned; the use case builds the entry
\* (html: last_checked is read now) and calls registry.upsert
MirrorClose ==
    /\ run.pc = "mirror_write"
    /\ run.written = Len(run.content)
    /\ LET entry == [run.entry EXCEPT !.s3_key = run.path,
                                      !.last_checked = IF run.kind = "api" THEN @ ELSE now]
       IN  /\ run' = [run EXCEPT !.pc = "upsert", !.entry = entry]
           /\ CallUpsert(entry)
    /\ hist' = [hist EXCEPT !.first = IF run.path \in DOMAIN @ THEN @
                                      ELSE Put(@, run.path, mirror[run.path])]
    /\ UNCHANGED <<regFile, tmpFile, active, mirror, web, now, contracts, cnt>>
    /\ UNCHANGED <<legacyVars, call>>

\* lines 37-38: an I/O exception becomes MirrorError, which leaves execute
MirrorFail ==
    /\ run.pc \in {"mirror_open", "mirror_write"}
    /\ cnt.events < MaxEvents
    /\ cnt' = [cnt EXCEPT !.events = @ + 1]
    /\ run' = [FinishRun(run, "MirrorError") EXCEPT !.mirrorFailed = TRUE]
    /\ UNCHANGED <<regFile, tmpFile, th, active, mirror, web, now, contracts, hist>>
    /\ UNCHANGED <<legacyVars, call>>

(***************************************************************************)
(* The package autodiscovery: DiscoverSourceUseCase.execute(key, mirror)   *)
(***************************************************************************)
LK_XLS == "bcra_infomodia_xls"
LK_RULES == "bcra_infomodia"
LK_CUSTOM == "custom_source"
LK_SERIES == "bcra_series"
LegacyKeys == {LK_XLS, LK_RULES, LK_CUSTOM, LK_SERIES}

\* the contracts file: LK_SERIES has no contract
LegacyContracts ==
    [k \in {LK_XLS, LK_RULES, LK_CUSTOM} |-> [start_urls |-> <<START>>, mirror |-> TRUE]]

\* ContractService.get_contract: the empty sequence is None
get_contract(key) ==
    IF key \in DOMAIN LegacyContracts THEN <<LegacyContracts[key]>> ELSE << >>

\* DiscovererFactory._discoverers
Discoverers == {"bcra_series", "bcra_infomodia_xls", "bcra_infomodia_pdf", "bcra_rem_pdf",
                "bcra_rem_xlsx", "indec_emae_api", "bcra_infomodia", "indec_emae"}

\* a factory with a default discoverer
create_any(key) == TRUE

\* DiscovererFactory.create: FALSE is None
create(key) == key \in Discoverers

\* autodiscovery.http.HTTPClient.head / get: raise on a failed request
legacy_head(w, u) == http_head(w, u)

legacy_get(w, u) == http_get(w, u)

\* version_from_date_filename
version_from_date_filename(d) == IF d = 1 THEN "v2025-11-01" ELSE "v2025-11-02"

\* BCRAInfomodiaDiscoverer.discover lines 26-42: (url, date, filename) of the
\* links whose filename matches the discoverer's pattern (P_DATE on this site)
RECURSIVE legacy_candidates(_, _)
legacy_candidates(w, start_urls) ==
    IF start_urls = << >> THEN << >>
    ELSE LET url == Head(start_urls)
             links == IF legacy_get(w, url).error THEN << >> ELSE extract_links(url)
             matching == SelectSeq(links, LAMBDA l :
                            PatternDate(P_DATE, extract_filename(l[1])) # NoneNum)
         IN  [i \in 1..Len(matching) |->
                 [url |-> matching[i][1],
                  date |-> PatternDate(P_DATE, extract_filename(matching[i][1])),
                  filename |-> extract_filename(matching[i][1])]]
             \o legacy_candidates(w, Tail(start_urls))

\* BCRAInfomodiaDiscoverer.discover and _validate_and_create: the empty
\* sequence is None
legacy_discover(w, start_urls) ==
    LET candidates == SortedDesc(legacy_candidates(w, start_urls), LAMBDA c : c.date) IN
    IF candidates = << >> THEN << >>
    ELSE LET latest == candidates[1]
             h == legacy_head(w, latest.url)
         IN  IF h.error THEN << >>
             ELSE <<[url |-> latest.url,
                     version |-> version_from_date_filename(latest.date),
                     filename |-> latest.filename,
                     mime |-> h.headers.ctype,
                     size_kb |-> h.headers.clen \div 1024]>>

\* rules/validation.py VALIDATION_RULES
VALIDATION_RULES ==
    [k \in {"bcra_infomodia"} |-> [expected_mime |-> "application/vnd.ms-excel"]]

RULE_MIN_SIZE_KB == 50

DEFAULT_MIN_SIZE_KB == 1

get_min_size_kb(key) == IF key \in DOMAIN VALIDATION_RULES THEN RULE_MIN_SIZE_KB ELSE NoneNum

validate_mime(key, mime) ==
    key \in DOMAIN VALIDATION_RULES => mime = VALIDATION_RULES[key].expected_mime

validate_size(key, size_kb) ==
    get_min_size_kb(key) # NoneNum => size_kb >= get_min_size_kb(key)

\* the Content-Disposition the sites send with a download
CD_ATTACHMENT == "attachment; filename=r.xls"

html_mimes == {"text/html", "text/plain", "application/xhtml+xml"}

valid_file_mimes ==
    {"application/pdf", "application/vnd.ms-excel",
     "application/vnd.openxmlformats-officedocument.spreadsheetml.sheet",
     "application/vnd.ms-excel.sheet.macroEnabled.12", "text/csv",
     "application/vnd.ms-excel.sheet.binary.macroEnabled.12", "application/zip",
     "application/x-zip-compressed", "application/octet-stream"}

\* file_validator.py lines 69-73; startswith is case-sensitive, and of the
\* MIME strings of the sites these start with "application/"
is_valid_file(mime) ==
    \/ Lower(mime) \in {Lower(m) : m \in valid_file_mimes}
    \/ mime \in {"application/pdf", "application/vnd.ms-excel", "application/json"}

\* "attachment" or "filename" occurs in the lower-cased Content-Disposition
has_attachment(content_disposition) == Lower(content_disposition) = CD_ATTACHMENT

\* FileValidator.validate_file: [ok, mime, size_kb]; min_size_kb and
\* max_age_days are NoneNum for None, and the clock is read for the age
validate_file(w, url, min_size_kb, max_age_days) ==
    LET h == legacy_head(w, url)
        mime == h.headers.ctype
        size_bytes == IF h.headers.clen = NoneNum THEN 0 ELSE h.headers.clen
        size_kb == IF size_bytes > 0 THEN size_bytes \div 1024 ELSE 0
        attachment == has_attachment(h.headers.cdisp)
        min_size == IF min_size_kb \in {NoneNum, 0} THEN DEFAULT_MIN_SIZE_KB
                    ELSE min_size_kb
        rejected == [ok |-> FALSE, mime |-> NoneStr, size_kb |-> NoneNum]
    IN  IF h.error THEN rejected
        ELSE IF Lower(mime) \in {Lower(m) : m \in html_mimes} THEN rejected
        ELSE IF ~is_valid_file(mime) /\ ~attachment THEN rejected
        ELSE IF size_kb < min_size /\ ~attachment THEN rejected
        ELSE IF /\ max_age_days # NoneNum
                /\ h.headers.lm # NoneNum
                /\ now - h.headers.lm > max_age_days
             THEN rejected
        ELSE [ok |-> TRUE, mime |-> mime, size_kb |-> size_kb]

\* ValidationService.validate_discovered_file: [is_valid, status, mime, size_kb]
validate_discovered_file(w, discovered, key) ==
    LET v == validate_file(w, discovered.url, get_min_size_kb(key), NoneNum) IN
    IF ~v.ok THEN [is_valid |-> FALSE, status |-> "broken", mime |-> discovered.mime,
                   size_kb |-> discovered.size_kb]
    ELSE [is_valid |-> TRUE,
          status |-> IF validate_mime(key, v.mime) /\ validate_size(key, v.size_kb)
                     THEN "ok" ELSE "suspect",
          mime |-> v.mime, size_kb |-> v.size_kb]

CONTRACT_NOT_FOUND == "Contract not found for key"
DISCOVERER_NOT_FOUND == "Discoverer not found for key"
NO_FILE_DISCOVERED == "No file discovered for key"
VALIDATION_FAILED == "File validation failed for key"

\* return DiscoverSourceResult(success=False, error=...)
LegacyFail(r, error) == [r EXCEPT !.pc = "idle", !.success = FALSE, !.error = error]

\* execute lines 66-118: contract, discoverer, discovery, validation
LegacyStart(key, mirrorArg) ==
    /\ lrun.pc = "idle"
    /\ lrun.calls < MaxCalls
    /\ LET base == [IdleLegacyRun EXCEPT !.key = key, !.pre = legacyReg,
                                         !.calls = lrun.calls + 1]
           contract == get_contract(key)
       IN  IF contract = << >> THEN lrun' = LegacyFail(base, CONTRACT_NOT_FOUND)
           ELSE IF ~create(key) THEN lrun' = LegacyFail(base, DISCOVERER_NOT_FOUND)
           ELSE LET found == legacy_discover(web, contract[1].start_urls)
                    d1 == [base EXCEPT !.did = {"discover"}]
                IN  IF found = << >> THEN lrun' = LegacyFail(d1, NO_FILE_DISCOVERED)
                    ELSE LET v == validate_discovered_file(web, found[1], key)
                             d2 == [d1 EXCEPT !.did = @ \cup {"validate"},
                                        !.discovered = [found[1] EXCEPT !.mime = v.mime,
                                                                        !.size_kb = v.size_kb],
                                        !.status = v.status]
                         IN  IF ~v.is_valid
                             THEN lrun' = LegacyFail([d2 EXCEPT !.discovered = found[1]],
                                                     VALIDATION_FAILED)
                             ELSE lrun' = [d2 EXCEPT !.pc =
                                             IF mirrorArg /\ contract[1].mirror
                                             THEN "get" ELSE "set"]
    /\ UNCHANGED <<legacyReg, mtmp, mirror, web, now, cnt, hist>>
    /\ UNCHANGED <<packageVars, call>>

\* the exception of mirror_file is caught by _mirror_file_if_needed, lines 161-163
MirrorResultNone(r) ==
    [r EXCEPT !.pc = "set", !.stored_path = NonePath, !.sha256 = NoneStr,
              !.mirrorFailed = TRUE]

\* FileSystemMirror.mirror_file lines 41-48: GET and hash
LegacyMirrorGet ==
    /\ lrun.pc = "get"
    /\ LET g == legacy_get(web, lrun.discovered.url)
           r == [lrun EXCEPT !.did = @ \cup {"mirror"}]
       IN  IF g.error
           THEN lrun' = MirrorResultNone(r) /\ UNCHANGED hist
           ELSE /\ lrun' = [r EXCEPT !.pc = "mkstemp", !.content = g.content,
                                     !.sha256 = sha256_bytes(g.content),
                                     !.path = <<lrun.key, lrun.discovered.version,
                                                lrun.discovered.filename>>]
                /\ hist' = [hist EXCEPT !.complete = @ \cup {g.content}]
    /\ UNCHANGED <<legacyReg, mtmp, mirror, web, now, cnt>>
    /\ UNCHANGED <<packageVars, call>>

\* atomic_write_stream line 34: tempfile.mkstemp in the target directory
LegacyTmpCreate ==
    /\ lrun.pc = "mkstemp"
    /\ mtmp' = [exists |-> TRUE, bytes |-> << >>]
    /\ lrun' = [lrun EXCEPT !.pc = "write", !.written = 0]
    /\ UNCHANGED <<legacyReg, mirror, web, now, cnt, hist>>
    /\ UNCHANGED <<packageVars, call>>

\* lines 37-41: a chunk is written to the temp file
LegacyTmpWrite ==
    /\ lrun.pc = "write"
    /\ lrun.written < Len(lrun.content)
    /\ mtmp' = [mtmp EXCEPT !.bytes = Append(@, lrun.content[lrun.written + 1])]
    /\ lrun' = [lrun EXCEPT !.written = @ + 1]
    /\ UNCHANGED <<legacyReg, mirror, web, now, cnt, hist>>
    /\ UNCHANGED <<packageVars, call>>

\* line 42: os.replace(temp_path, file_path); mirror_file returns
LegacyReplace ==
    /\ lrun.pc = "write"
    /\ lrun.written = Len(lrun.content)
    /\ mirror' = Put(mirror, lrun.path, mtmp.bytes)
    /\ mtmp' = NoTemp
    /\ lrun' = [lrun EXCEPT !.pc = "set", !.stored_path = lrun.path]
    /\ hist' = [hist EXCEPT !.first = IF lrun.path \in DOMAIN @ THEN @
                                      ELSE Put(@, lrun.path, mtmp.bytes)]
    /\ UNCHANGED <<legacyReg, web, now, cnt>>
    /\ UNCHANGED <<packageVars, call>>

\* lines 43-47: an I/O exception; the temp file is unlinked and the exception
\* raised again
LegacyMirrorFail ==
    /\ lrun.pc \in {"mkstemp", "write"}
    /\ cnt.events < MaxEvents
    /\ cnt' = [cnt EXCEPT !.events = @ + 1]
    /\ mtmp' = NoTemp
    /\ lrun' = MirrorResultNone(lrun)
    /\ UNCHANGED <<legacyReg, mirror, web, now, hist>>
    /\ UNCHANGED <<packageVars, call>>

\* RegistryEntryBuilder ... build(), execute lines 120-131
legacy_entry(r, today) ==
    [key |-> r.key, url |-> r.discovered.url, version |-> r.discovered.version,
     mime |-> IF r.discovered.mime = NoneStr THEN "" ELSE r.discovered.mime,
     size_kb |-> IF r.discovered.size_kb = NoneNum THEN 0 ELSE r.discovered.size_kb,
     sha256 |-> IF r.sha256 = NoneStr THEN "" ELSE r.sha256,
     status |-> r.status, notes |-> r.notes, stored_path |-> r.stored_path,
     s3_key |-> NoneStr, last_checked |-> today]

\* RegistryManager.set_entry
set_entry(reg, key, entry) == Put(reg, key, entry)

\* execute lines 133-140: the entry is saved and success returned
LegacySetEntry ==
    /\ lrun.pc = "set"
    /\ legacyReg' = set_entry(legacyReg, lrun.key, legacy_entry(lrun, now))
    /\ lrun' = [lrun EXCEPT !.pc = "idle", !.success = TRUE,
                            !.did = @ \cup {"registry"},
                            !.entry = legacy_entry(lrun, now)]
    /\ UNCHANGED <<mtmp, mirror, web, now, cnt, hist>>
    /\ UNCHANGED <<packageVars, call>>

(***************************************************************************)
(* The engine on a list of crawled files: Ranker.rank, Validator.validate  *)
(* and Selector.select, called as _discover_html calls them                *)
(***************************************************************************)
MaxCandidates == 2

FileUrls == {F1, F2, G1, G2, G3, G4}

\* the candidates the crawler hands over, in crawl order
RECURSIVE CrawlOrders(_)
CrawlOrders(n) ==
    IF n = 0 THEN {<< >>}
    ELSE CrawlOrders(n - 1) \cup
         {Append(q, u) : q \in {x \in CrawlOrders(n - 1) : Len(x) = n - 1},
                         u \in FileUrls}

WithLastModified(r, lm) == [r EXCEPT !.lm = lm]

\* servers that differ in the Last-Modified they send
SelectWebs ==
    {[u \in Urls |-> Served(u, R_A)],
     [u \in Urls |-> Served(u, WithLastModified(R_A, 2))],
     [u \in Urls |-> Served(u, IF u = G3 THEN WithLastModified(R_A, 3) ELSE R_A)],
     [u \in Urls |-> Served(u, IF u \in {F1, G3} THEN WithLastModified(R_A, 3)
                                ELSE WithLastModified(R_A, 1))],
     [u \in Urls |-> Served(u, IF u \in {F2, G2} THEN WithLastModified(R_A, 1)
                                ELSE WithLastModified(R_A, 2))]}

SelectConfigs ==
    [prefer_ext : {<< >>, <<"xls">>, <<"xls", "pdf">>, <<"pdf", "xls">>},
     prefer_newest_by : {"last_modified", "date_from_filename_or_last_modified",
                         "best_effort_date_or_last_modified"}]

PatternLists == {<< >>, <<P_ISO>>, <<P_DATE>>}

AcceptAll == [mime_any |-> << >>, min_size_kb |-> 0]

NoCandidate == DiscoveredFile(NoneStr, NoneStr, NoneStr, 0)

InitSelect ==
    /\ InitCommon
    /\ legacyReg = << >>
    /\ active = {MAIN}
    /\ regFile = EmptyRegistry
    /\ now = 1
    /\ web \in SelectWebs
    /\ contracts = [k \in SourceKeys |-> BaseContract]
    /\ \E order \in CrawlOrders(MaxCandidates), cfg \in SelectConfigs,
          pats \in PatternLists :
          /\ order # << >>
          /\ \A i, j \in 1..Len(order) : i # j => order[i] # order[j]
          /\ call = [op |-> "pipeline", pc |-> "crawled", crawled |-> order,
                     candidates |-> [i \in 1..Len(order) |->
                                       DiscoveredFile(K1, order[i],
                                                      extract_filename(order[i]), 0)],
                     select |-> cfg, patterns |-> pats,
                     selected |-> NoCandidate]

\* ranked = ranker.rank(candidates, match_config)
PipelineRank ==
    /\ call.op = "pipeline" /\ call.pc = "crawled"
    /\ call' = [call EXCEPT !.pc = "ranked",
                            !.candidates = rank(call.candidates, call.patterns)]
    /\ UNCHANGED systemVars

\* valid = validator.validate(ranked, expect_config)
PipelineValidate ==
    /\ call.op = "pipeline" /\ call.pc = "ranked"
    /\ call' = [call EXCEPT !.pc = "validated",
                            !.candidates = validate(web, call.candidates, AcceptAll)]
    /\ UNCHANGED systemVars

\* selected = selector.select(valid, select_config, match_config)
PipelineSelect ==
    /\ call.op = "pipeline" /\ call.pc = "validated"
    /\ call.candidates # << >>
    /\ call' = [call EXCEPT !.pc = "selected",
                            !.selected = select(call.candidates, call.select,
                                                call.patterns)]
    /\ UNCHANGED systemVars

(***************************************************************************)
(* The HTTP clients under tenacity's @retry: HttpxAdapter.head/get and     *)
(* HTTPClient.head/get.  One step is one attempt, that is one execution of *)
(* the decorated function.                                                 *)
(***************************************************************************)
HttpClients == {"HttpxAdapter", "HTTPClient"}

HttpMethods == {"HEAD", "GET"}

\* what one attempt meets: a status, or no response at all
AttemptOutcomes == {"200", "404", "503", "network", "timeout"}

\* the exception the request and raise_for_status() raise, NoneStr for a 2xx
exception_of(outcome) ==
    CASE outcome = "200" -> NoneStr
      [] outcome \in {"404", "503"} -> "HTTPStatusError"
      [] outcome = "timeout" -> "TimeoutException"
      [] OTHER -> "RequestError"

\* the exception that leaves the decorated function: HttpxAdapter catches
\* every exception and returns (None, error); HTTPClient logs and re-raises
propagated(client, outcome) ==
    IF client = "HttpxAdapter" THEN NoneStr ELSE exception_of(outcome)

\* retry=...: HTTPClient names RequestError (TimeoutException is one) and
\* HTTPStatusError; HttpxAdapter keeps the default, any exception
retry_if_exception_type(client, exc) ==
    /\ exc # NoneStr
    /\ client = "HTTPClient" =>
          exc \in {"RequestError", "TimeoutException", "HTTPStatusError"}

\* stop=stop_after_attempt(3)
STOP_AFTER_ATTEMPT == 3

stop_after_attempt(attempt_number) == attempt_number >= STOP_AFTER_ATTEMPT

InitHttp ==
    /\ InitCommon
    /\ legacyReg = << >>
    /\ active = {MAIN}
    /\ regFile = EmptyRegistry
    /\ now = 1
    /\ web = [u \in Urls |-> Served(u, InitialResponse)]
    /\ contracts = [k \in SourceKeys |-> BaseContract]
    /\ \E c \in HttpClients, m \in HttpMethods, u \in FileUrls :
          call = [op |-> "http", client |-> c, method |-> m, url |-> u,
                  pc |-> "attempt", outcomes |-> << >>, result |-> "none"]

\* one attempt of the call and tenacity's decision after it
HttpAttempt(outcome) ==
    /\ call.op = "http" /\ call.pc = "attempt"
    /\ LET exc == propagated(call.client, outcome)
           n == Len(call.outcomes) + 1
       IN  call' = [call EXCEPT
                      !.outcomes = Append(@, outcome),
                      !.pc = IF retry_if_exception_type(call.client, exc)
                                /\ ~stop_after_attempt(n)
                             THEN "attempt" ELSE "done",
                      !.result = CASE exc = NoneStr /\ outcome = "200" -> "response"
                                   [] exc = NoneStr -> "error"
                                   [] retry_if_exception_type(call.client, exc)
                                      /\ ~stop_after_attempt(n) -> "none"
                                   [] OTHER -> "raised"]
    /\ UNCHANGED systemVars

(***************************************************************************)
(* Properties of the registry adapter                                      *)
(***************************************************************************)
\* C1: after upsert(e) has completed, get_by_key(e.key) returns an entry equal
\* to e in every field, and get_by_key of every other source key returns what
\* it returned before the upsert.
C1_UpsertThenGet ==
    (th[MAIN].pc = "idle" /\ th[MAIN].res = "ok") =>
        /\ get_by_key(regFile, th[MAIN].entry.key) = {th[MAIN].entry}
        /\ \A k \in SourceKeys \ {th[MAIN].entry.key} :
              get_by_key(regFile, k) = get_by_key(th[MAIN].pre, k)

\* an upsert of K1 has completed on a registry that held an entry of K2
C1_Witness ==
    /\ th[MAIN].pc = "idle"
    /\ th[MAIN].res = "ok"
    /\ th[MAIN].entry.key = K1
    /\ th[MAIN].entry.sha256 = "961b6dd3"
    /\ get_by_key(th[MAIN].pre, K2) # {}
    /\ get_by_key(regFile, K2) = get_by_key(th[MAIN].pre, K2)
    /\ get_by_key(regFile, K1) = {th[MAIN].entry}

\* the step that kills the process while thread MAIN is inside upsert
CrashInUpsert ==
    /\ th[MAIN].pc \in UpsertPcs
    /\ cnt'.events = cnt.events + 1
    /\ th'[MAIN] = IdleThread

\* C2: when the process is killed at any point of an upsert before the rename,
\* also partway through the write of the temp file, the registry file holds
\* exactly its pre-upsert content and list_keys returns the pre-upsert keys.
C2_CrashBeforeRename ==
    [][CrashInUpsert =>
         /\ regFile' = th[MAIN].pre
         /\ ~read_registry(regFile').error
         /\ list_keys(regFile') = list_keys(th[MAIN].pre)]_vars

\* the process was killed while the temp file was partly written, and the
\* registry still holds its entry
C2_Witness ==
    /\ hist.crashAt = "flush"
    /\ tmpFile.exists
    /\ ~tmpFile.complete
    /\ tmpFile.data # << >>
    /\ th[MAIN].pc = "idle"
    /\ list_keys(regFile) = {K2}

\* C3: two upserts for distinct keys that run concurrently never interleave
\* their read-modify-write sections: once both have completed, the registry
\* holds the entry of both keys.
C3_NoLostUpdate ==
    (/\ \A t \in Threads : th[t].pc = "idle" /\ th[t].res = "ok"
     /\ th["t1"].entry.key # th["t2"].entry.key)
    => {th["t1"].entry.key, th["t2"].entry.key} \subseteq list_keys(regFile)

(***************************************************************************)
(* Properties of the discover use cases                                    *)
(***************************************************************************)
\* C4: when execute(key) has ended without a successful entry (None returned,
\* or ContractError, MirrorError or RegistryError raised), the content of the
\* registry is identical to its content before the call.
C4_FailureLeavesRegistry ==
    (run.pc = "idle" /\ run.outcome \in {"None", "ContractError", "MirrorError",
                                         "RegistryError"})
    => /\ regFile = run.pre
       /\ \A k \in SourceKeys : get_by_key(regFile, k) = get_by_key(run.pre, k)

\* the download of the selected candidate has failed and the registry still
\* holds the entry it held before the call
C4_Witness ==
    /\ run.pc = "idle"
    /\ run.outcome = "None"
    /\ run.selected.url = F2
    /\ web[F2] = R_DOWN
    /\ regFile = run.pre
    /\ get_by_key(regFile, K2) # {}

\* the same for the package autodiscovery: a result with success = False
\* leaves the registry as it was before the call
C4_LegacyFailureLeavesRegistry ==
    (lrun.pc = "idle" /\ lrun.key # NoneStr /\ ~lrun.success)
    => legacyReg = lrun.pre /\ "registry" \notin lrun.did

\* C5: when the mirroring of the discovered file has failed in a run with
\* mirroring enabled, the run ends as a failed discovery and the registry
\* entry of the key is neither written nor replaced.
C5_MirrorFailurePropagates ==
    (lrun.pc = "idle" /\ lrun.mirrorFailed)
    => ~lrun.success /\ legacyReg = lrun.pre

\* the keys of the model without a contract, and with a contract but without
\* a discoverer
NoContractKeys == {LK_SERIES}

NoDiscovererKeys == {LK_CUSTOM}

\* C6: for a key without contract or without discoverer, execute ends at once,
\* before any discovery, validation, mirroring or registry write, with
\* success = False and entry = None, and the error of a missing contract
\* differs from the error of a missing discoverer.
C6_FailsImmediately ==
    (lrun.key \in NoContractKeys \cup NoDiscovererKeys)
    => /\ lrun.pc = "idle"
       /\ ~lrun.success
       /\ lrun.entry = NoLegacyEntry
       /\ lrun.did = {}
       /\ legacyReg = lrun.pre
       /\ lrun.error = IF lrun.key \in NoContractKeys
                       THEN CONTRACT_NOT_FOUND ELSE DISCOVERER_NOT_FOUND
       /\ CONTRACT_NOT_FOUND # DISCOVERER_NOT_FOUND

\* execute has failed for the key without discoverer, after a run that had
\* written the registry
C6_Witness ==
    /\ lrun.key = LK_CUSTOM
    /\ lrun.error = DISCOVERER_NOT_FOUND
    /\ LK_XLS \in DOMAIN legacyReg
    /\ legacyReg = lrun.pre

\* C7: between runs, for every key whose registry entry refers to a mirrored
\* file, the sha256 of the entry is the SHA-256 of the bytes stored at the
\* mirror path of the entry.
C7_ShaMatchesMirror ==
    run.pc = "idle" =>
        \A k \in SourceKeys : \A e \in get_by_key(regFile, k) :
            e.s3_key # NonePath =>
                /\ e.s3_key \in DOMAIN mirror
                /\ Sha256(sha256_bytes(mirror[e.s3_key])) = e.sha256

\* C8: once a run has stored a file at a mirror path, after every later
\* successful run the path holds the bytes that were stored first.
C8_WriteOnce ==
    (run.pc = "idle" /\ run.outcome = "ok")
    => \A p \in DOMAIN hist.first : mirror[p] = hist.first[p]

\* C9: after a run, failed or not, every file of the mirror holds the complete
\* bytes of one finished download.
C9_NoPartialFile ==
    run.pc = "idle" => \A p \in DOMAIN mirror : mirror[p] \in hist.complete

\* the step in which a run ends with success
RunSucceeds == run.pc = "upsert" /\ run'.pc = "idle" /\ run'.outcome = "ok"

ContentTypes == {"application/pdf", "Application/PDF", "application/vnd.ms-excel",
                 "text/html", "text/plain", "image/png", ""}

Bodies == {<< >>, <<"a">>, <<"a", "a">>}

\* what a server may answer for a file: one response when it is down
ValidateResponses ==
    {R_DOWN} \cup
    {[ok |-> TRUE, head |-> hd, body |-> b, lm |-> lm, ctype |-> ct,
      haslen |-> hl, cdisp |-> cd] :
        hd \in BOOLEAN, b \in Bodies, lm \in {NoneNum, 1, 3}, ct \in ContentTypes,
        hl \in BOOLEAN, cd \in {"", CD_ATTACHMENT}}

\* the answers for the second candidate
SecondResponses ==
    {R_DOWN, R_NOHEAD,
     [R_A EXCEPT !.ctype = "application/pdf"],
     [R_A EXCEPT !.ctype = "text/html", !.body = <<"a">>],
     [R_NOHEAD EXCEPT !.ctype = "Application/PDF", !.lm = 1]}

\* the expect block of a contract
ExpectConfigs ==
    {[mime_any |-> m, min_size_kb |-> k, max_age_days |-> d] :
        m \in {<< >>, <<"application/pdf">>, <<"image/png", "Application/PDF">>},
        k \in {0, 2}, d \in {NoneNum, 1}}

ValidateKeys == {K1, "bcra_infomodia"}

ValidateWeb(r1, r2) ==
    [u \in Urls |-> IF u = F1 THEN r1 ELSE IF u = F2 THEN r2 ELSE Served(u, R_A)]

InitValidate ==
    /\ InitCommon
    /\ legacyReg = << >>
    /\ active = {MAIN}
    /\ regFile = EmptyRegistry
    /\ now = 3
    /\ contracts = [k \in SourceKeys |-> BaseContract]
    /\ \E r1 \in ValidateResponses :
          \/ \E r2 \in SecondResponses, e \in ExpectConfigs, order \in {<<F1>>, <<F1, F2>>} :
                /\ Len(order) = 1 => r2 = R_DOWN
                /\ web = ValidateWeb(r1, r2)
                /\ call = [op |-> "validate", i |-> 1, expect |-> e,
                           candidates |-> [j \in 1..Len(order) |->
                                             DiscoveredFile(K1, order[j],
                                                            extract_filename(order[j]), 0)],
                           requests |-> << >>, output |-> << >>]
          \/ \E k \in {NoneNum, 0, 2}, d \in {NoneNum, 1} :
                /\ web = ValidateWeb(r1, R_DOWN)
                /\ call = [op |-> "validate_file", pc |-> "call", url |-> F1,
                           min_size_kb |-> k, max_age_days |-> d,
                           result |-> [ok |-> FALSE, mime |-> NoneStr, size_kb |-> NoneNum]]
          \/ \E key \in ValidateKeys, d \in {NoneNum, 1} :
                /\ web = ValidateWeb(r1, R_DOWN)
                /\ call = [op |-> "validate_discovered_file", pc |-> "call", key |-> key,
                           max_age_days |-> d,
                           discovered |-> [url |-> F1, mime |-> NoneStr, size_kb |-> NoneNum],
                           result |-> [is_valid |-> FALSE, status |-> "none",
                                       mime |-> NoneStr, size_kb |-> NoneNum]]

\* one iteration of the loop of Validator.validate: the requests it sends, in
\* their order, and the candidate it appends
ValidateCandidate ==
    /\ call.op = "validate"
    /\ call.i <= Len(call.candidates)
    /\ LET c == call.candidates[call.i]
           r == validate_one(web, c, call.expect)
       IN  call' = [call EXCEPT
                      !.i = @ + 1,
                      !.requests = @ \o (IF r.headed THEN <<<<"HEAD", c.url>>>> ELSE << >>)
                                     \o (IF r.got THEN <<<<"GET", c.url>>>> ELSE << >>),
                      !.output = IF r.valid THEN Append(@, r.candidate) ELSE @]
    /\ UNCHANGED systemVars

\* FileValidator.validate_file(url, key, min_size_kb=..., max_age_days=...)
ValidateFile ==
    /\ call.op = "validate_file" /\ call.pc = "call"
    /\ call' = [call EXCEPT !.pc = "done",
                            !.result = validate_file(web, call.url, call.min_size_kb,
                                                     call.max_age_days)]
    /\ UNCHANGED systemVars

\* ValidationService.validate_discovered_file(discovered, key), the contract
\* of the key setting expect.max_age_days to call.max_age_days
ValidateDiscoveredFile ==
    /\ call.op = "validate_discovered_file" /\ call.pc = "call"
    /\ call' = [call EXCEPT !.pc = "done",
                            !.result = validate_discovered_file(web, call.discovered,
                                                                call.key)]
    /\ UNCHANGED systemVars

(***************************************************************************)
(* The package autodiscovery: ValidateSourceUseCase.execute(key) over a    *)
(* registry that holds entries.  call.pc is the position of the call:      *)
(* "set" before the set_entry of the try block, "except" in the handler.   *)
(***************************************************************************)
StoredEntry(key, url, mime, size_kb, status) ==
    [key |-> key, url |-> url, version |-> "v2025-11-01", mime |-> mime,
     size_kb |-> size_kb, sha256 |-> "961b6dd3", status |-> status,
     notes |-> "monthly", stored_path |-> <<key, "v2025-11-01", "r-2025-11-01.xls">>,
     s3_key |-> "s3/r", last_checked |-> 1]

\* the registries a revalidation starts from
RevalidateRegistries ==
    {[k \in {LK_RULES, LK_CUSTOM, LK_SERIES} |->
         IF k = LK_RULES THEN StoredEntry(k, F1, "application/vnd.ms-excel", 2, "ok")
         ELSE StoredEntry(k, F1, "application/pdf", 2, "ok")],
     [k \in {LK_RULES, LK_CUSTOM} |->
         IF k = LK_RULES THEN StoredEntry(k, F1, "application/pdf", 1, "broken")
         ELSE StoredEntry(k, F1, "application/pdf", 1, "suspect")]}

\* what the server of the registered URL may answer
RevalidateResponses ==
    {R_DOWN, R_NOHEAD} \cup
    {[R_A EXCEPT !.ctype = ct, !.body = b, !.haslen = hl] :
        ct \in {"application/pdf", "application/vnd.ms-excel", "text/html"},
        b \in {<<"a">>, <<"a", "a">>}, hl \in BOOLEAN}

\* RegistryRepository.get_entry: the empty sequence is None
get_entry(reg, key) == IF key \in DOMAIN reg THEN <<reg[key]>> ELSE << >>

NoResult == [success |-> FALSE, status |-> "", error |-> NoneStr, raised |-> FALSE]

ENTRY_NOT_FOUND == "Entry not found for key"

NOT_ACCESSIBLE == "File is not accessible"

IdleValidateSource ==
    [op |-> "validate_source", pc |-> "idle", key |-> NoneStr, calls |-> 0,
     pre |-> << >>, read |-> NoLegacyEntry, updated |-> NoLegacyEntry,
     accessible |-> FALSE, set_calls |-> 0, writes |-> 0, result |-> NoResult]

InitRevalidate ==
    /\ InitCommon
    /\ active = {MAIN}
    /\ regFile = EmptyRegistry
    /\ now = 2
    /\ contracts = [k \in SourceKeys |-> BaseContract]
    /\ \E r1 \in RevalidateResponses : web = ValidateWeb(r1, Served(F2, R_A))
    /\ legacyReg \in RevalidateRegistries
    /\ call = IdleValidateSource

\* "or": the right operand when the left one is None or falsy
or_str(v, default) == IF v \in {NoneStr, ""} THEN default ELSE v

or_num(v, default) == IF v \in {NoneNum, 0} THEN default ELSE v

\* the entry written back as it was read
stale_entry(entry, key, today) == entry

\* RegistryEntry(key=key, url=entry.url, ..., status="broken", ...) of lines
\* 101-113 and 167-179
broken_entry(entry, key, today) ==
    [entry EXCEPT !.key = key, !.status = "broken", !.last_checked = today]

\* execute lines 57-97 and the RegistryEntry of lines 101-113 or 127-149:
\* the entry, the contract, validate_file on the registered URL
ValidateSourceStart(key) ==
    /\ call.op = "validate_source" /\ call.pc = "idle"
    /\ call.calls < MaxCalls
    /\ LET base == [IdleValidateSource EXCEPT !.key = key, !.calls = call.calls + 1,
                                              !.pre = legacyReg]
           found == get_entry(legacyReg, key)
       IN  IF found = << >>
           THEN call' = [base EXCEPT !.result.error = ENTRY_NOT_FOUND]
           ELSE IF get_contract(key) = << >>
           THEN call' = [base EXCEPT !.result.error = CONTRACT_NOT_FOUND]
           ELSE LET entry == found[1]
                    v == validate_file(web, entry.url, NoneNum, NoneNum)
                    status == IF validate_mime(key, or_str(v.mime, ""))
                                 /\ validate_size(key, or_num(v.size_kb, 0))
                              THEN "ok" ELSE "suspect"
                IN  call' = [base EXCEPT
                        !.pc = "set", !.read = entry, !.accessible = v.ok,
                        !.updated =
                            IF ~v.ok
                            THEN broken_entry(entry, key, now)
                            ELSE [entry EXCEPT !.key = key, !.mime = or_str(v.mime, ""),
                                               !.size_kb = or_num(v.size_kb, 0),
                                               !.status = status, !.last_checked = now]]
    /\ UNCHANGED systemVars

\* execute lines 114-125 or 151-162: set_entry and the result, or set_entry
\* raises and the handler of line 164 is entered
ValidateSourceSet(raises) ==
    /\ call.op = "validate_source" /\ call.pc = "set"
    /\ IF raises
       THEN /\ call' = [call EXCEPT !.pc = "except", !.set_calls = @ + 1]
            /\ UNCHANGED legacyReg
       ELSE /\ legacyReg' = set_entry(legacyReg, call.key, call.updated)
            /\ call' = [call EXCEPT
                          !.pc = "idle", !.set_calls = @ + 1, !.writes = @ + 1,
                          !.result = [success |-> call.accessible,
                                      status |-> call.updated.status,
                                      error |-> IF call.accessible THEN NoneStr
                                                ELSE NOT_ACCESSIBLE,
                                      raised |-> FALSE]]
    /\ UNCHANGED <<regFile, tmpFile, th, active, mirror, web, now, contracts, run, cnt,
                   hist, lrun, mtmp>>

\* execute lines 164-191: the entry read is saved as broken, or set_entry
\* raises again and the exception leaves execute
ValidateSourceExcept(raises) ==
    /\ call.op = "validate_source" /\ call.pc = "except"
    /\ LET broken == broken_entry(call.read, call.key, now)
       IN  IF raises
           THEN /\ call' = [call EXCEPT !.pc = "idle", !.set_calls = @ + 1,
                                        !.result.raised = TRUE]
                /\ UNCHANGED legacyReg
           ELSE /\ legacyReg' = set_entry(legacyReg, call.key, broken)
                /\ call' = [call EXCEPT
                              !.pc = "idle", !.set_calls = @ + 1, !.writes = @ + 1,
                              !.updated = broken,
                              !.result = [success |-> FALSE, status |-> "broken",
                                          error |-> "set_entry", raised |-> FALSE]]
    /\ UNCHANGED <<regFile, tmpFile, th, active, mirror, web, now, contracts, run, cnt,
                   hist, lrun, mtmp>>

(***************************************************************************)
(* DiscoverSourceUseCase._discover_html seen from the network: one step    *)
(* per stage, call.requests the requests sent so far, in their order.      *)
(* The run ends at pc "mirror", where mirroring and the upsert begin, or   *)
(* at pc "none", where the method returns None.                            *)
(***************************************************************************)
\* known_urls, find and expect of the contracts; the rest is BaseContract's
DiscoverContracts ==
    {[BaseContract EXCEPT !.known_urls = k, !.find.url_tokens_any = t,
                          !.expect = [mime_any |-> << >>, min_size_kb |-> 1]] :
        k \in {<< >>, <<G1>>, <<G1, G2>>, <<F1>>}, t \in {<< >>, <<"informe">>}}

\* the start page up or down, the files up, without HEAD, or down
DiscoverWebs ==
    {[u \in Urls |->
        Served(u, CASE u = START -> rs [] u = F1 -> r1 [] u = F2 -> r2
                    [] u = G1 -> r3 [] u = G2 -> r4 [] OTHER -> R_A)] :
        rs \in {R_A, R_DOWN}, r1 \in {R_A, R_NOHEAD, R_DOWN}, r2 \in {R_A, R_DOWN},
        r3 \in {R_A, R_NOHEAD, R_DOWN}, r4 \in {R_A, R_DOWN}}

InitDiscover ==
    /\ InitCommon
    /\ legacyReg = << >>
    /\ active = {MAIN}
    /\ regFile = EmptyRegistry
    /\ now = 1
    /\ web \in DiscoverWebs
    /\ \E c \in DiscoverContracts, fast \in BOOLEAN :
          /\ contracts = [k \in SourceKeys |-> c]
          /\ call = [op |-> "discover_html", pc |-> "crawl", key |-> K1, fast |-> fast,
                     contract |-> effective_contract(c, fast),
                     fetched |-> << >>, crawled |-> << >>, candidates |-> << >>,
                     requests |-> << >>, selected |-> NoCandidate]

\* the requests of Validator.validate over the candidates, in their order
RECURSIVE validate_requests(_, _, _)
validate_requests(w, candidates, expect) ==
    IF candidates = << >> THEN << >>
    ELSE LET c == Head(candidates)
             r == validate_one(w, c, expect)
         IN  (IF r.headed THEN <<<<"HEAD", c.url>>>> ELSE << >>)
             \o (IF r.got THEN <<<<"GET", c.url>>>> ELSE << >>)
             \o validate_requests(w, Tail(candidates), expect)

\* lines 180-215: crawl, the known URLs, the key of the candidates
DiscoverCrawl ==
    /\ call.op = "discover_html" /\ call.pc = "crawl"
    /\ LET c == call.contract
           r == crawl(web, c.start_urls, c.scope, c.find, c.scope.max_depth,
                      c.scope.max_candidates)
           found == with_known_urls(r.candidates, call.key, c.known_urls)
       IN  call' = [call EXCEPT
                      !.pc = IF found = << >> THEN "none" ELSE "rank",
                      !.fetched = r.fetched,
                      !.crawled = r.candidates,
                      !.candidates = [i \in 1..Len(found) |->
                                        [found[i] EXCEPT !.key = call.key]],
                      !.requests = [i \in 1..Len(r.fetched) |-> <<"GET", r.fetched[i]>>]]
    /\ UNCHANGED systemVars

\* lines 217-219
DiscoverRank ==
    /\ call.op = "discover_html" /\ call.pc = "rank"
    /\ call' = [call EXCEPT !.pc = "validate",
                            !.candidates = rank(@, call.contract.patterns)]
    /\ UNCHANGED systemVars

\* lines 221-228
DiscoverValidate ==
    /\ call.op = "discover_html" /\ call.pc = "validate"
    /\ LET valid == validate(web, call.candidates, call.contract.expect)
       IN  call' = [call EXCEPT
                      !.pc = IF valid = << >> THEN "none" ELSE "select",
                      !.candidates = valid,
                      !.requests = @ \o validate_requests(web, call.candidates,
                                                          call.contract.expect)]
    /\ UNCHANGED systemVars

\* lines 230-236
DiscoverSelect ==
    /\ call.op = "discover_html" /\ call.pc = "select"
    /\ call' = [call EXCEPT !.pc = "download",
                            !.selected = select(call.candidates, call.contract.select,
                                                call.contract.patterns)]
    /\ UNCHANGED systemVars

\* lines 238-243: the GET of the selected file
DiscoverDownload ==
    /\ call.op = "discover_html" /\ call.pc = "download"
    /\ LET g == http_get(web, call.selected.url)
       IN  call' = [call EXCEPT
                      !.pc = IF g.error \/ g.content = << >> THEN "none" ELSE "mirror",
                      !.requests = Append(@, <<"GET", call.selected.url>>)]
    /\ UNCHANGED systemVars

(***************************************************************************)
(* SyncAllUseCase.execute(only_keys, fast): the loop over the contracts,   *)
(* each discover run with the steps of DiscoverSourceUseCase.execute.      *)
(* call.contracts is the list load_all returns, by the key of each         *)
(* contract, NoneStr for a contract without a key.                         *)
(***************************************************************************)
\* the contract lists of the sync runs
SyncLists == {<<K1, K2>>, <<K2, NoneStr, K1>>, <<K1>>}

\* only_keys: << >> for None
OnlyKeys == {<< >>, <<K2>>, <<K1, K0>>}

\* the contracts of a key: sound, without start URLs, not mirrored, and one
\* whose files are all too small
SyncContracts ==
    {BaseContract,
     [BaseContract EXCEPT !.start_urls = << >>],
     [BaseContract EXCEPT !.mirror = FALSE],
     [BaseContract EXCEPT !.expect.min_size_kb = 5]}

NoResults == [total |-> 0, success |-> 0, failed |-> 0, errors |-> << >>]

InitSync ==
    /\ InitCommon
    /\ legacyReg = << >>
    /\ active = {MAIN}
    /\ regFile = EmptyRegistry
    /\ now = 1
    /\ web = [u \in Urls |-> Served(u, InitialResponse)]
    /\ \E c1 \in SyncContracts, c2 \in SyncContracts :
          contracts = [k \in SourceKeys |-> IF k = K1 THEN c1 ELSE c2]
    /\ \E l \in SyncLists, only \in OnlyKeys, fast \in BOOLEAN :
          call = [op |-> "sync", pc |-> "start", contracts |-> l, only_keys |-> only,
                  fast |-> fast, todo |-> << >>, i |-> 1, executed |-> << >>,
                  results |-> NoResults]

\* line 48: the contracts whose key is in only_keys
filter_keys(keys, only_keys) ==
    LET Kept(k) == InSeq(k, only_keys) IN SelectSeq(keys, Kept)

\* the exception leaves the loop
caught_never(outcome) == FALSE

\* lines 72-75: "except Exception" around one discover run
caught(outcome) == outcome \notin {"ok", "None"}

\* lines 41-55
SyncStart ==
    /\ call.op = "sync" /\ call.pc = "start"
    /\ LET todo == IF call.only_keys # << >>
                   THEN filter_keys(call.contracts, call.only_keys)
                   ELSE call.contracts
       IN  call' = [call EXCEPT !.pc = "loop", !.todo = todo,
                                !.results = [NoResults EXCEPT !.total = Len(todo)]]
    /\ UNCHANGED systemVars

\* lines 58-60: a contract without a key is passed over
SyncSkip ==
    /\ call.op = "sync" /\ call.pc = "loop"
    /\ call.i <= Len(call.todo)
    /\ call.todo[call.i] = NoneStr
    /\ call' = [call EXCEPT !.i = @ + 1]
    /\ UNCHANGED systemVars

\* lines 62-64, the part of the loop: the next contract has a key
SyncNext ==
    /\ call.op = "sync" /\ call.pc = "loop"
    /\ call.i <= Len(call.todo)
    /\ call.todo[call.i] # NoneStr
    /\ call' = [call EXCEPT !.pc = "called", !.executed = Append(@, call.todo[call.i])]

\* lines 62-64: self.discover.execute(key, fast=fast) begins
SyncCall ==
    /\ SyncNext
    /\ DiscoverExecute(call.todo[call.i], call.fast)

\* lines 65-75: the run has returned an entry, returned None, or raised
SyncCollect ==
    /\ call.op = "sync" /\ call.pc = "called"
    /\ run.pc = "idle" /\ th[MAIN].pc = "idle"
    /\ LET key == call.todo[call.i]
           failed(error) == [call.results EXCEPT
                               !.failed = @ + 1,
                               !.errors = Append(@, [key |-> key, error |-> error])]
       IN  call' =
             CASE run.outcome = "ok" ->
                    [call EXCEPT !.pc = "loop", !.i = @ + 1, !.results.success = @ + 1]
               [] run.outcome = "None" ->
                    [call EXCEPT !.pc = "loop", !.i = @ + 1,
                                 !.results = failed("Discovery returned None")]
               [] OTHER ->
                    IF caught(run.outcome)
                    THEN [call EXCEPT !.pc = "loop", !.i = @ + 1,
                                      !.results = failed(run.outcome)]
                    ELSE [call EXCEPT !.pc = "raised"]
    /\ UNCHANGED systemVars

\* lines 77-84: the loop is over
SyncReturn ==
    /\ call.op = "sync" /\ call.pc = "loop"
    /\ call.i > Len(call.todo)
    /\ call' = [call EXCEPT !.pc = "done"]
    /\ UNCHANGED systemVars

(***************************************************************************)
(* URL normalization, character by character.  A parsed URL is a record    *)
(* [scheme, netloc, path, fragment] whose path and fragment are sequences  *)
(* of characters; call.out holds the results of the successive             *)
(* applications of call.fn to call.url.                                    *)
(***************************************************************************)
MaxPathLen == 3

\* the characters of the paths given to the functions
PathChars == {"a", "/", " ", "%"}

\* urllib.parse.quote never encodes letters, digits and "_.-~"
ALWAYS_SAFE == {"a", "0", "2", "5", "F"}

\* urllib.parse.quote(string, safe): every other character becomes %XX
RECURSIVE quote(_, _)
quote(string, safe) ==
    IF string = << >> THEN << >>
    ELSE LET c == Head(string)
         IN  (CASE c \in ALWAYS_SAFE \cup safe -> <<c>>
                [] c = " " -> <<"%", "2", "0">>
                [] c = "%" -> <<"%", "2", "5">>
                [] c = "/" -> <<"%", "2", "F">>)
             \o quote(Tail(string), safe)

\* str.split("/"): the parts between the slashes
RECURSIVE split(_)
split(string) ==
    IF \A i \in DOMAIN string : string[i] # "/" THEN <<string>>
    ELSE LET i == CHOOSE j \in DOMAIN string :
                     string[j] = "/" /\ \A k \in 1..(j - 1) : string[k] # "/"
         IN  <<SubSeq(string, 1, i - 1)>> \o split(SubSeq(string, i + 1, Len(string)))

\* "/".join(parts)
RECURSIVE join(_)
join(parts) ==
    IF Len(parts) = 1 THEN parts[1]
    ELSE parts[1] \o <<"/">> \o join(Tail(parts))

\* html_parser.normalize_url lines 20-33
normalize_url(url) ==
    IF url.path # << >>
    THEN LET path_parts == split(url.path)
             encoded_parts == [i \in DOMAIN path_parts |-> quote(path_parts[i], {})]
         IN  [url EXCEPT !.path = join(encoded_parts)]
    ELSE url

\* urltools.urljoin_safe lines 14-32 for an absolute link: the joined URL is
\* the link itself, parsed
urljoin_safe_absolute(parsed) ==
    [parsed EXCEPT !.path = quote(parsed.path, {"/"}),
                   !.fragment = IF parsed.fragment # << >>
                                THEN quote(parsed.fragment, {}) ELSE << >>]

\* the sequences over the characters up to the length n
RECURSIVE CharSeqs(_)
CharSeqs(n) ==
    IF n = 0 THEN {<< >>}
    ELSE LET shorter == CharSeqs(n - 1)
         IN  shorter \cup {Append(q, c) : q \in shorter, c \in PathChars}

InitNormalize ==
    /\ InitCommon
    /\ legacyReg = << >>
    /\ active = {MAIN}
    /\ regFile = EmptyRegistry
    /\ now = 1
    /\ web = [u \in Urls |-> Served(u, InitialResponse)]
    /\ contracts = [k \in SourceKeys |-> BaseContract]
    /\ \E fn \in {"normalize_url", "urljoin_safe"},
          p \in CharSeqs(MaxPathLen), f \in {<< >>, <<"a", " ">>} :
          call = [op |-> "normalize", fn |-> fn,
                  url |-> [scheme |-> "http", netloc |-> "h",
                           path |-> <<"/">> \o p, fragment |-> f],
                  out |-> << >>]

\* the last value: the URL given, or the result of the last application
Last(c) == IF c.out = << >> THEN c.url ELSE c.out[Len(c.out)]

\* normalize_url applied to the last value
NormalizeUrl ==
    /\ call.op = "normalize" /\ call.fn = "normalize_url"
    /\ Len(call.out) < 2
    /\ call' = [call EXCEPT !.out = Append(@, normalize_url(Last(call)))]
    /\ UNCHANGED systemVars

\* urljoin_safe(base, link) applied to the last value
UrljoinSafe ==
    /\ call.op = "normalize" /\ call.fn = "urljoin_safe"
    /\ Len(call.out) < 2
    /\ call' = [call EXCEPT !.out = Append(@, urljoin_safe_absolute(Last(call)))]
    /\ UNCHANGED systemVars

(***************************************************************************)
(* Crawler.crawl, one step per turn of its while loop.  call.st is the     *)
(* state of the loop: the queue of (url, depth), the visited set, the      *)
(* candidates, and the URLs fetched with the depths they were fetched at.  *)
(***************************************************************************)
MaxDepth == 2

MaxCrawlCandidates == 3

\* the start URLs of the crawls: pages, a page twice, a file, another host
CrawlStarts ==
    {<< >>, <<HUB>>, <<START>>, <<HUB, START>>, <<HUB, HUB>>, <<F1>>, <<OFF, WWW>>}

\* scope.allow_domains and scope.allow_paths_any
CrawlDomains == {<< >>, <<"h">>, <<"other">>}

CrawlPaths == {<< >>, <<"/q">>, <<"/d", "/p">>}

\* every URL answers; the hub is down; the download link is down
CrawlWebs ==
    {[u \in CrawlUrls |-> Served(u, IF u \in down THEN R_DOWN ELSE R_A)] :
        down \in {{}, {HUB}, {DL, SUB}}}

InitCrawl ==
    /\ InitCommon
    /\ legacyReg = << >>
    /\ active = {MAIN}
    /\ regFile = EmptyRegistry
    /\ now = 1
    /\ contracts = [k \in SourceKeys |-> BaseContract]
    /\ web \in CrawlWebs
    /\ \E start_urls \in CrawlStarts, d \in CrawlDomains, p \in CrawlPaths,
          max_depth \in 0..MaxDepth, max_candidates \in 0..MaxCrawlCandidates :
          call = [op |-> "crawl", pc |-> "loop", start_urls |-> start_urls,
                  scope |-> [allow_domains |-> d, allow_paths_any |-> p],
                  find |-> BaseContract.find,
                  max_depth |-> max_depth, max_candidates |-> max_candidates,
                  st |-> crawl_begin(start_urls), result |-> << >>]

\* lines 69-168: one turn of the loop
CrawlStep ==
    /\ call.op = "crawl" /\ call.pc = "loop"
    /\ crawl_continues(call.max_candidates, call.st)
    /\ call' = [call EXCEPT !.st = crawl_step(web, call.scope, call.find,
                                              call.max_depth, call.st)]
    /\ UNCHANGED systemVars

\* lines 69 and 170-176: the loop is left and the candidates are returned
CrawlReturn ==
    /\ call.op = "crawl" /\ call.pc = "loop"
    /\ ~crawl_continues(call.max_candidates, call.st)
    /\ call' = [call EXCEPT !.pc = "done",
                            !.result = truncate(call.st.candidates, call.max_candidates)]
    /\ UNCHANGED systemVars

(***************************************************************************)
(* Properties of the selection                                             *)
(***************************************************************************)
\* the position of the first extension of exts the filename of c ends in
\* (Len(exts) + 1 when it ends in none)
ExtRank(c, exts) ==
    LET hits == {i \in 1..Len(exts) :
                    EndsWith(Lower(c.filename), Lower(NormalizeExt(exts[i])))}
    IN  IF hits = {} THEN Len(exts) + 1
        ELSE CHOOSE i \in hits : \A j \in hits : i <= j

Selected == call.op = "pipeline" /\ call.pc = "selected"

Valid == {call.candidates[i] : i \in 1..Len(call.candidates)}

\* C11: with a non-empty prefer_ext, the selected candidate's filename ends in
\* the earliest preferred extension that some validated candidate has.
C11_EarliestPreferredExt ==
    (Selected /\ call.select.prefer_ext # << >>)
    => \A c \in Valid :
          ExtRank(call.selected, call.select.prefer_ext)
             <= ExtRank(c, call.select.prefer_ext)

\* the candidate's own date: the date a regex captures from its filename, else
\* its own Last-Modified, else 0 (before every day of the model)
OwnDate(c) ==
    LET named == CASE call.select.prefer_newest_by = "last_modified" -> NoneNum
                   [] call.select.prefer_newest_by = "date_from_filename_or_last_modified" ->
                        date_from_filename(c.filename, call.patterns)
                   [] OTHER ->
                        best_effort_date_or_last_modified(c.filename, call.patterns, NoHeaders)
    IN  IF named # NoneNum THEN named
        ELSE IF c.last_modified # NoneNum THEN c.last_modified
        ELSE 0

OneExtClass ==
    \A c, d \in Valid :
        ExtRank(c, call.select.prefer_ext) = ExtRank(d, call.select.prefer_ext)

\* C12: among candidates of one extension class, under last_modified and under
\* date_from_filename_or_last_modified, the selected candidate's own date is
\* maximal.
C12_NewestOwnDate ==
    (/\ Selected
     /\ OneExtClass
     /\ call.select.prefer_newest_by \in {"last_modified",
                                          "date_from_filename_or_last_modified"})
    => \A c \in Valid : OwnDate(call.selected) >= OwnDate(c)

\* the position of the candidate in the crawl order
CrawlPos(c) == CHOOSE i \in 1..Len(call.crawled) : call.crawled[i] = c.url

\* c is at least as good as d by ranker score, then by crawl order
WinsTie(c, d) ==
    \/ c.score > d.score
    \/ c.score = d.score /\ CrawlPos(c) <= CrawlPos(d)

Newest == {c \in Valid : \A d \in Valid : OwnDate(c) >= OwnDate(d)}

\* C13: when several validated candidates of one extension class carry the
\* newest date, the pipeline returns the one with the highest score, and among
\* equal scores the one crawled first.
C13_TieByScoreThenOrder ==
    (Selected /\ OneExtClass /\ call.selected \in Newest)
    => \A d \in Newest : WinsTie(call.selected, d)

\* a candidate whose date comes from its filename
NamedDate(c) == OwnDate(c) # 0 /\ OwnDate([c EXCEPT !.last_modified = NoneNum]) # 0

\* the same when every candidate is dated by its filename, or none is
C13_TieSameDateSource ==
    (/\ Selected
     /\ OneExtClass
     /\ (\A c \in Valid : NamedDate(c)) \/ (\A c \in Valid : ~NamedDate(c)))
    => /\ call.selected \in Newest
       /\ \A d \in Newest : WinsTie(call.selected, d)

(***************************************************************************)
(* Properties of the HTTP clients                                          *)
(***************************************************************************)
HttpDone == call.op = "http" /\ call.pc = "done"

Transient == {"503", "network", "timeout"}

Attempts == Len(call.outcomes)

\* C14: a call whose attempts fail transiently goes on until an attempt
\* succeeds or 3 attempts have been made, and never makes more than 3.
C14_TransientRetried ==
    HttpDone =>
        /\ Attempts <= 3
        /\ call.outcomes[Attempts] \in Transient => Attempts = 3

\* the same for HTTPClient alone
C14_HTTPClientRetries ==
    (HttpDone /\ call.client = "HTTPClient") =>
        /\ Attempts <= 3
        /\ call.outcomes[Attempts] \in Transient => Attempts = 3

\* C15: a call whose attempt receives a 4xx status makes exactly one attempt
\* and returns the error.
C15_ClientErrorNotRetried ==
    (call.op = "http" /\ Attempts >= 1 /\ call.outcomes[1] = "404") =>
        /\ call.pc = "done"
        /\ Attempts = 1
        /\ call.result \in {"error", "raised"}

\* the same for HttpxAdapter alone
C15_HttpxAdapterNoRetry ==
    (call.op = "http" /\ call.client = "HttpxAdapter"
     /\ Attempts >= 1 /\ call.outcomes[1] = "404") =>
        /\ call.pc = "done"
        /\ Attempts = 1
        /\ call.result = "error"

(***************************************************************************)
(* Properties of the validation                                            *)
(***************************************************************************)
\* what the server does with a request, read off its response
HeadOk(u) == web[u].ok /\ web[u].head

GetOk(u) == web[u].ok

\* the candidates Validator.validate is through with
Processed == {call.candidates[j].url : j \in 1..(call.i - 1)}

Output == {call.output[j] : j \in 1..Len(call.output)}

\* the methods of the requests sent for u, in the order they were sent
MethodsFor(u) ==
    LET sent == SelectSeq(call.requests, LAMBDA q : q[2] = u)
    IN  [j \in 1..Len(sent) |-> sent[j][1]]

\* the metadata the response at u gives a candidate: the Content-Type
\* lower-cased, and the size in KB of the Content-Length after a HEAD and of
\* the body after a GET, NoneNum for none
MimeSent(u) == IF web[u].ctype = "" THEN NoneStr ELSE Lower(web[u].ctype)

SizeSent(u) ==
    IF HeadOk(u)
    THEN IF web[u].haslen THEN Len(web[u].body) ELSE NoneNum
    ELSE IF web[u].body # << >> THEN Len(web[u].body) ELSE NoneNum

MimeAccepted(expect, mime) ==
    expect.mime_any # << >> =>
        /\ mime # NoneStr
        /\ \E j \in 1..Len(expect.mime_any) : Lower(expect.mime_any[j]) = Lower(mime)

SizeAccepted(expect, size_kb) ==
    expect.min_size_kb > 0 => size_kb # NoneNum /\ size_kb >= expect.min_size_kb

\* C16: for each candidate Validator.validate sends HEAD first and a GET only
\* if the HEAD failed, and a candidate is returned with the note
\* "head_failed_get_ok" exactly when its HEAD failed, its GET succeeded and it
\* passed the acceptance checks
C16_HeadThenGet ==
    call.op = "validate" =>
        /\ \A u \in Processed :
              MethodsFor(u) = IF HeadOk(u) THEN <<"HEAD">> ELSE <<"HEAD", "GET">>
        /\ \A u \in Urls \ Processed : MethodsFor(u) = << >>
        /\ \A c \in Output :
              c.notes = "head_failed_get_ok" <=> ~HeadOk(c.url) /\ GetOk(c.url)
        /\ \A u \in Processed :
              (/\ ~HeadOk(u) /\ GetOk(u)
               /\ MimeAccepted(call.expect, MimeSent(u))
               /\ SizeAccepted(call.expect, SizeSent(u)))
              => \E c \in Output : c.url = u /\ c.notes = "head_failed_get_ok"

\* a candidate came back through the fallback, another after its HEAD alone
C16_Witness ==
    /\ call.op = "validate"
    /\ call.i > Len(call.candidates)
    /\ call.requests = <<<<"HEAD", F1>>, <<"GET", F1>>, <<"HEAD", F2>>>>
    /\ \E c \in Output : c.url = F1 /\ c.notes = "head_failed_get_ok"
    /\ \E c \in Output : c.url = F2 /\ c.notes = NoneStr

\* C17: every candidate in the output of Validator.validate has a MIME type
\* equal, case-insensitively, to an entry of expect.mime_any when that list is
\* non-empty and a size_kb of at least expect.min_size_kb when that is
\* positive; a candidate failing either check is not in the output
C17_OutputAccepted ==
    call.op = "validate" =>
        /\ \A c \in Output :
              /\ MimeAccepted(call.expect, c.mime)
              /\ SizeAccepted(call.expect, c.size_kb)
              /\ c.mime = MimeSent(c.url)
              /\ c.size_kb = SizeSent(c.url)
        /\ \A u \in Processed :
              (~MimeAccepted(call.expect, MimeSent(u))
                  \/ ~SizeAccepted(call.expect, SizeSent(u)))
              => \A c \in Output : c.url # u

\* both checks are on; one candidate passed them with a MIME in another case
\* than the contract's, the other was answered by its server and dropped
C17_Witness ==
    /\ call.op = "validate"
    /\ call.i > Len(call.candidates)
    /\ call.expect.mime_any = <<"application/pdf">>
    /\ call.expect.min_size_kb = 2
    /\ web[F1].ctype = "Application/PDF"
    /\ \E c \in Output : c.url = F1 /\ c.size_kb = 2
    /\ GetOk(F2)
    /\ \A c \in Output : c.url # F2

\* the URLs a finished or running validation has accepted
Accepted ==
    CASE call.op = "validate" -> {c.url : c \in Output}
      [] call.op = "validate_file" /\ call.pc = "done" /\ call.result.ok -> {call.url}
      [] call.op = "validate_discovered_file" /\ call.pc = "done" /\ call.result.is_valid
           -> {call.discovered.url}
      [] OTHER -> {}

\* the contract's expect.max_age_days, NoneNum when it sets none
MaxAgeDays ==
    CASE call.op = "validate" -> call.expect.max_age_days
      [] call.op \in {"validate_file", "validate_discovered_file"} -> call.max_age_days
      [] OTHER -> NoneNum

\* the response at u is not older than the contract allows
YoungEnough(u) ==
    MaxAgeDays # NoneNum /\ web[u].lm # NoneNum => now - web[u].lm <= MaxAgeDays

\* C18: when the contract sets expect.max_age_days and the response carries a
\* Last-Modified header, validation in the discover pipeline accepts the
\* candidate only if now minus last_modified is at most max_age_days
C18_MaxAgeEnforced ==
    call.op \in {"validate", "validate_discovered_file"} =>
        \A u \in Accepted : YoungEnough(u)

\* FileValidator.validate_file, given max_age_days, accepts no older file
C18_ValidateFileAge ==
    call.op = "validate_file" => \A u \in Accepted : YoungEnough(u)

\* the URLs whose validation by Validator.validate or
\* FileValidator.validate_file is over and whose server answered it
Answered ==
    CASE call.op = "validate" -> {u \in Processed : GetOk(u)}
      [] call.op = "validate_file" /\ call.pc = "done" -> {u \in {call.url} : HeadOk(u)}
      [] OTHER -> {}

\* the contract's min_size_kb, NoneNum when the caller gives none
MinSizeKb ==
    CASE call.op = "validate" -> call.expect.min_size_kb
      [] call.op = "validate_file" -> call.min_size_kb
      [] OTHER -> NoneNum

Floor == IF MinSizeKb \in {NoneNum, 0} THEN 1 ELSE MinSizeKb

HtmlSent(u) == Lower(web[u].ctype) \in {"text/html", "text/plain", "application/xhtml+xml"}

AttachmentSent(u) == web[u].cdisp = CD_ATTACHMENT

\* the size in KB the response at u announces or, fetched, has
KbSent(u) == IF SizeSent(u) = NoneNum THEN 0 ELSE SizeSent(u)

\* C19: a candidate whose response MIME is text/html, text/plain or
\* application/xhtml+xml is rejected unless the response carries
\* Content-Disposition: attachment, and with the attachment disposition the
\* candidate is accepted whatever its MIME if its size is at least the floor
C19_HtmlUnlessAttachment ==
    \A u \in Answered :
        /\ HtmlSent(u) /\ ~AttachmentSent(u) => u \notin Accepted
        /\ AttachmentSent(u) /\ KbSent(u) >= Floor /\ YoungEnough(u) => u \in Accepted

\* FileValidator.validate_file rejects the three MIME types, with or without
\* an attachment disposition
C19_ValidateFileRejectsHtml ==
    call.op = "validate_file" => \A u \in Answered : HtmlSent(u) => u \notin Accepted

\* the other checks of the validator at work pass on the response at u
OtherChecksPass(u) ==
    /\ YoungEnough(u)
    /\ call.op = "validate" => MimeAccepted(call.expect, MimeSent(u))
    /\ call.op = "validate_file" =>
          ~HtmlSent(u) /\ web[u].ctype \in {"application/pdf", "Application/PDF"}

\* the size_kb validation reports for an accepted u
SizeReported(u) ==
    IF call.op = "validate"
    THEN (CHOOSE c \in Output : c.url = u).size_kb
    ELSE call.result.size_kb

\* C20: a candidate whose response has no Content-Length gets size_kb = 0 and
\* is accepted if and only if the contract's min_size_kb is 0 or an attachment
\* disposition is present
C20_NoContentLength ==
    \A u \in Answered :
        ~web[u].haslen /\ MinSizeKb # NoneNum /\ OtherChecksPass(u) =>
            /\ u \in Accepted <=> MinSizeKb = 0 \/ AttachmentSent(u)
            /\ u \in Accepted => SizeReported(u) = 0

\* after a successful HEAD without Content-Length, Validator.validate accepts
\* with min_size_kb = 0 and rejects with min_size_kb > 0
C20_ValidatorAfterHead ==
    call.op = "validate" =>
        \A u \in Answered :
            ~web[u].haslen /\ HeadOk(u) /\ MimeAccepted(call.expect, MimeSent(u)) =>
                (u \in Accepted <=> MinSizeKb = 0)

(***************************************************************************)
(* Properties of the status                                                *)
(***************************************************************************)
\* the response at u satisfies the MIME and the size the rules of key ask for
MimeSatisfied(key, u) ==
    key \in DOMAIN VALIDATION_RULES => web[u].ctype = VALIDATION_RULES[key].expected_mime

SizeSatisfied(key, u) ==
    key \in DOMAIN VALIDATION_RULES =>
        web[u].haslen /\ Len(web[u].body) >= RULE_MIN_SIZE_KB

\* the status is ok, suspect, broken as the three cases of the sentence,
\* accessible being the given condition
StatusAsSpecified(status, accessible, key, u) ==
    /\ status = "ok" <=> accessible /\ MimeSatisfied(key, u) /\ SizeSatisfied(key, u)
    /\ status = "suspect" <=>
          accessible /\ ~(MimeSatisfied(key, u) /\ SizeSatisfied(key, u))
    /\ status = "broken" <=> ~accessible

\* C21: the status computed for a file is ok exactly when the file was
\* accessible and its MIME and size satisfied the contract, suspect exactly
\* when it was accessible and a constraint was missed, broken exactly when it
\* was not accessible (the server did not answer the request with success)
C21_StatusTrichotomy ==
    call.op = "validate_discovered_file" /\ call.pc = "done" =>
        StatusAsSpecified(call.result.status, HeadOk(call.discovered.url),
                          call.key, call.discovered.url)

\* the three cases with "accessible" read as "FileValidator.validate_file
\* returned True"
C21_StatusOfValidateFile ==
    call.op = "validate_discovered_file" /\ call.pc = "done" =>
        StatusAsSpecified(call.result.status,
                          validate_file(web, call.discovered.url,
                                        get_min_size_kb(call.key), NoneNum).ok,
                          call.key, call.discovered.url)

(***************************************************************************)
(* Properties of the revalidation                                          *)
(***************************************************************************)
\* execute(key) has returned after it validated the URL of the key's entry
Revalidated ==
    /\ call.op = "validate_source" /\ call.pc = "idle"
    /\ call.read # NoLegacyEntry
    /\ ~call.result.raised

\* C22: when ValidateSourceUseCase.execute(key) finds the registered URL of an
\* existing entry not accessible, it writes the entry back exactly once with
\* status broken and returns success = false
C22_BrokenWrittenOnce ==
    Revalidated =>
        /\ ~HeadOk(call.read.url) => ~call.accessible
        /\ ~call.accessible =>
              /\ call.writes = 1
              /\ call.key \in DOMAIN legacyReg
              /\ legacyReg[call.key].status = "broken"
              /\ legacyReg[call.key].url = call.read.url
              /\ ~call.result.success
              /\ call.result.status = "broken"

\* the server of an entry recorded as ok is down and the entry is now broken
C22_Witness ==
    /\ Revalidated
    /\ ~web[call.read.url].ok
    /\ call.read.status = "ok"
    /\ call.set_calls = 1
    /\ legacyReg[call.key].status = "broken"

\* the entries of the other keys are what they were when execute began
OthersKept ==
    /\ DOMAIN legacyReg = DOMAIN call.pre
    /\ \A k \in DOMAIN legacyReg : k # call.key => legacyReg[k] = call.pre[k]

SameFields(e, d, fields) == \A f \in fields : e[f] = d[f]

\* C23: revalidating a key changes only status and last_checked of that key's
\* entry: the entry written back has the url, version, mime, size_kb, sha256,
\* notes, mirror path and remote key of the entry read, and no other key's
\* entry changes
C23_OnlyStatusAndChecked ==
    Revalidated /\ call.writes > 0 =>
        /\ SameFields(legacyReg[call.key], call.read,
                      {"url", "version", "mime", "size_kb", "sha256", "notes",
                       "stored_path", "s3_key"})
        /\ OthersKept

\* url, version, sha256, notes, mirror path and remote key are kept, and so
\* are the other keys' entries
C23_IdentityKept ==
    Revalidated /\ call.writes > 0 =>
        /\ SameFields(legacyReg[call.key], call.read,
                      {"url", "version", "sha256", "notes", "stored_path", "s3_key"})
        /\ OthersKept

(***************************************************************************)
(* Properties of a discover run seen from the network                      *)
(***************************************************************************)
Discovering == call.op = "discover_html"

Succeeded == Discovering /\ call.pc = "mirror"

\* how many requests of the run used the method
Sent(method) == Cardinality({i \in DOMAIN call.requests : call.requests[i][1] = method})

\* how many times the crawl fetched the URL
Fetches(u) == Cardinality({i \in DOMAIN call.fetched : call.fetched[i] = u})

\* C24: with fast=True a successful discover run has fetched each start URL
\* at most once, has had at most one candidate, and has sent, after the
\* crawl, exactly one HEAD for a candidate and one GET for the download.
C24_FastOneHeadOneGet ==
    (Succeeded /\ call.fast) =>
        /\ \A i \in DOMAIN call.contract.start_urls :
              Fetches(call.contract.start_urls[i]) <= 1
        /\ Len(call.crawled) <= 1
        /\ Sent("HEAD") = 1
        /\ Sent("GET") - Len(call.fetched) = 1

\* C24, the part about the crawl: with fast=True the crawl fetches each
\* start URL at most once and returns at most one candidate.
C24_FastCrawl ==
    (Discovering /\ call.fast /\ call.pc # "crawl") =>
        /\ \A i \in DOMAIN call.contract.start_urls :
              Fetches(call.contract.start_urls[i]) <= 1
        /\ Len(call.crawled) <= 1

\* the known URLs of the contract of the run
KnownUrls == {call.contract.known_urls[i] : i \in DOMAIN call.contract.known_urls}

\* the URLs of a sequence of candidates
CandidateUrls(cs) == {cs[i].url : i \in DOMAIN cs}

\* the URLs requested after the crawl
RequestedAfterCrawl ==
    {call.requests[i][2] : i \in (Len(call.fetched) + 1)..Len(call.requests)}

\* the known URLs as the candidates of the run
KnownAsCandidates ==
    LET known == known_candidates(call.key, call.contract.known_urls)
    IN  [i \in DOMAIN known |-> [known[i] EXCEPT !.key = call.key]]

\* C25: the known URLs are the candidates exactly when the crawl returned
\* no candidate and known_urls is not empty, and then the rest of the run
\* ranks, validates, selects and downloads those URLs only; when the crawl
\* returned a candidate the run validates, selects and downloads crawled
\* candidates only.
C25_KnownUrlsAfterEmptyCrawl ==
    (Discovering /\ call.pc # "crawl") =>
        /\ call.pc = "rank" =>
              ((call.candidates = KnownAsCandidates)
                  <=> (call.crawled = << >> /\ call.contract.known_urls # << >>))
        /\ call.crawled = << >> =>
              /\ CandidateUrls(call.candidates) \subseteq KnownUrls
              /\ RequestedAfterCrawl \subseteq KnownUrls
              /\ call.selected # NoCandidate =>
                    call.selected.url \in KnownUrls
        /\ call.crawled # << >> =>
              /\ \A i \in DOMAIN call.candidates :
                    \E j \in DOMAIN call.crawled :
                       /\ call.candidates[i].url = call.crawled[j].url
                       /\ call.candidates[i].score # 100
              /\ RequestedAfterCrawl \subseteq CandidateUrls(call.crawled)
              /\ call.selected # NoCandidate =>
                    call.selected.url \in CandidateUrls(call.crawled)

\* a run whose crawl found nothing has selected and downloaded a known URL
C25_Witness ==
    /\ Succeeded
    /\ call.crawled = << >>
    /\ Len(call.contract.known_urls) = 2
    /\ call.selected.url \in KnownUrls

(***************************************************************************)
(* Properties of a sync run                                                *)
(***************************************************************************)
Syncing == call.op = "sync"

SyncReturned == Syncing /\ call.pc = "done"

\* the keys the run is asked to sync, in the order of the contracts
SelectedKeys ==
    LET Wanted(k) == /\ k # NoneStr
                     /\ call.only_keys # << >> => InSeq(k, call.only_keys)
    IN  SelectSeq(call.contracts, Wanted)

\* C26: a sync run executes discover once for every selected key, in the
\* order of the contracts, whatever the earlier runs returned or raised: the
\* keys executed so far are always the first selected keys, the run returns,
\* and when it has returned they are all the selected keys, each counted
\* once as a success or as a failure.
C26_EveryKeyAttempted ==
    /\ [](Syncing =>
            /\ Len(call.executed) <= Len(SelectedKeys)
            /\ call.executed = SubSeq(SelectedKeys, 1, Len(call.executed)))
    /\ [](SyncReturned =>
            /\ call.executed = SelectedKeys
            /\ call.results.success + call.results.failed = Len(SelectedKeys))
    /\ <>SyncReturned

\* a sync run has returned after its first key raised and its second succeeded
C26_Witness ==
    /\ SyncReturned
    /\ Len(call.executed) = 2
    /\ call.results.success = 1
    /\ call.results.errors # << >>
    /\ call.results.errors[1].key = call.executed[1]
    /\ call.results.errors[1].error \in {"ContractError", "MirrorError", "RegistryError"}

(***************************************************************************)
(* Properties of the URL normalization                                     *)
(***************************************************************************)
NormalizedTwice == call.op = "normalize" /\ Len(call.out) = 2

\* the characters quote() encodes
Encoded(string) == \E i \in DOMAIN string : string[i] \in {" ", "%"}

\* C27: normalizing a normalized URL changes nothing: the second
\* application of normalize_url, or of urljoin_safe, returns its argument.
C27_NormalizeIdempotent ==
    NormalizedTwice => call.out[2] = call.out[1]

\* C27 for the URLs without a space or a percent sign: both functions
\* return them unchanged, a first and a second time.
C27_IdempotentOnPlainUrls ==
    (NormalizedTwice /\ ~Encoded(call.url.path) /\ ~Encoded(call.url.fragment)) =>
        call.out[1] = call.url /\ call.out[2] = call.url

(***************************************************************************)
(* Properties of the crawl                                                 *)
(***************************************************************************)
Crawling == call.op = "crawl"

CrawlDone == Crawling /\ call.pc = "done"

\* the URLs the crawl has fetched so far
Fetched == {call.st.fetched[i] : i \in DOMAIN call.st.fetched}

\* the host is an allowed domain or one of its subdomains
HostAllowed(u) ==
    \E i \in DOMAIN call.scope.allow_domains :
       LET d == call.scope.allow_domains[i]
       IN  netloc(u) = d \/ EndsWith(netloc(u), Dotted(d))

\* the path begins with an allowed prefix
PathAllowed(u) ==
    \E i \in DOMAIN call.scope.allow_paths_any :
       StartsWith(path(u), call.scope.allow_paths_any[i])

StartUrls == {call.start_urls[i] : i \in DOMAIN call.start_urls}

BodyReceived(u) == ~http_get(web, u).error

\* the URL was followed as a page: its body is HTML
FollowedAsHtml(u) == http_get(web, u).headers.ctype = "text/html"

\* C29: the crawler downloads no file body: no URL ending in one of the
\* file extensions is fetched, and every URL whose body the crawler
\* receives is an HTML page.
C29_NoFileBodyDownloaded ==
    Crawling =>
        \A u \in Fetched :
           /\ ~is_file_link(u)
           /\ BodyReceived(u) => FollowedAsHtml(u)

\* C29 for the links of a followed page: a link ending in one of the file
\* extensions is never put on the queue, so no followed link with such an
\* ending is fetched.
C29_FileLinksNotEnqueued ==
    Crawling =>
        /\ \A i \in DOMAIN call.st.queue :
              call.st.queue[i][2] > 0 => ~is_file_link(call.st.queue[i][1])
        /\ \A i \in DOMAIN call.st.fetched :
              call.st.depths[i] > 0 => ~is_file_link(call.st.fetched[i])

\* no URL appears twice among the fetched
FetchedOnce ==
    \A i, j \in DOMAIN call.st.fetched :
       call.st.fetched[i] = call.st.fetched[j] => i = j

\* C30: every crawl returns, whatever the links between the pages, having
\* fetched no URL twice, and it returns when the queue is empty or the
\* number of candidates has reached max_candidates.
C30_CrawlTerminates ==
    /\ <>CrawlDone
    /\ [](Crawling => FetchedOnce)
    /\ [](CrawlDone =>
            \/ call.st.queue = << >>
            \/ Len(call.st.candidates) >= call.max_candidates)

\* a crawl has returned with an empty queue after the hub, which links
\* itself, and the subdomain page, which links back to the hub
C30_Witness ==
    /\ CrawlDone
    /\ call.st.queue = << >>
    /\ Len(call.st.candidates) < call.max_candidates
    /\ {HUB, WWW} \subseteq Fetched
    /\ call.max_depth = 2

(***************************************************************************)
(* Specifications                                                          *)
(***************************************************************************)
\* the use case of autodiscovery_sources and its environment
Next ==
    \/ \E fast \in BOOLEAN : DiscoverStart(K1, fast)
    \/ Download
    \/ MirrorOpen
    \/ MirrorWrite
    \/ MirrorClose
    \/ MirrorFail
    \/ UpsertRead(MAIN)
    \/ UpsertOpen(MAIN)
    \/ UpsertDump(MAIN)
    \/ UpsertFlush(MAIN)
    \/ UpsertReplace(MAIN)
    \/ UpsertFail(MAIN)
    \/ \E c \in Changes : ServerChange(c[1], c[2])
    \/ Tick

Spec == Init /\ [][Next]_vars

\* the registry adapter called directly, and the process killed
NextRegistry ==
    \/ \E t \in Threads, e \in ClientEntries(now) : UpsertBegin(t, e)
    \/ \E t \in Threads : UpsertRead(t)
    \/ \E t \in Threads : UpsertOpen(t)
    \/ \E t \in Threads : UpsertDump(t)
    \/ \E t \in Threads : UpsertFlush(t)
    \/ \E t \in Threads : UpsertReplace(t)
    \/ \E t \in Threads : UpsertFail(t)
    \/ Crash
    \/ Tick

SpecRegistry == InitRegistry /\ [][NextRegistry]_vars

SpecConc == InitConc /\ [][NextRegistry]_vars

\* the use case of the package autodiscovery and its environment
NextLegacy ==
    \/ \E key \in LegacyKeys, mirrorArg \in BOOLEAN : LegacyStart(key, mirrorArg)
    \/ LegacyMirrorGet
    \/ LegacyTmpCreate
    \/ LegacyTmpWrite
    \/ LegacyReplace
    \/ LegacyMirrorFail
    \/ LegacySetEntry
    \/ \E c \in Changes : ServerChange(c[1], c[2])
    \/ Tick

SpecLegacy == InitLegacy /\ [][NextLegacy]_vars

\* the engine on a list of crawled candidates
NextSelect ==
    \/ PipelineRank
    \/ PipelineValidate
    \/ PipelineSelect

SpecSelect == InitSelect /\ [][NextSelect]_vars

\* one call of an HTTP client
NextHttp == \E outcome \in AttemptOutcomes : HttpAttempt(outcome)

SpecHttp == InitHttp /\ [][NextHttp]_vars

\* one call of a validator
NextValidate ==
    \/ ValidateCandidate
    \/ ValidateFile
    \/ ValidateDiscoveredFile

SpecValidate == InitValidate /\ [][NextValidate]_vars

\* revalidations of registered sources
NextRevalidate ==
    \/ \E key \in LegacyKeys : ValidateSourceStart(key)
    \/ \E raises \in BOOLEAN : ValidateSourceSet(raises)
    \/ \E raises \in BOOLEAN : ValidateSourceExcept(raises)

SpecRevalidate == InitRevalidate /\ [][NextRevalidate]_vars

\* one run of _discover_html, stage by stage
NextDiscover ==
    \/ DiscoverCrawl
    \/ DiscoverRank
    \/ DiscoverValidate
    \/ DiscoverSelect
    \/ DiscoverDownload

SpecDiscover == InitDiscover /\ [][NextDiscover]_vars

\* one sync run: the loop and the steps of each discover run
NextSync ==
    \/ SyncStart
    \/ SyncSkip
    \/ SyncCall
    \/ SyncCollect
    \/ SyncReturn
    \/ Download
    \/ MirrorOpen
    \/ MirrorWrite
    \/ MirrorClose
    \/ MirrorFail
    \/ UpsertRead(MAIN)
    \/ UpsertOpen(MAIN)
    \/ UpsertDump(MAIN)
    \/ UpsertFlush(MAIN)
    \/ UpsertReplace(MAIN)
    \/ UpsertFail(MAIN)

\* the steps of the loop; a discover run can always begin when the loop
\* reaches a contract with a key
SyncLoop == SyncStart \/ SyncSkip \/ SyncNext \/ SyncCollect \/ SyncReturn

\* the steps of a discover run after its beginning
DiscoverSteps ==
    \/ Download
    \/ MirrorOpen \/ MirrorWrite \/ MirrorClose \/ MirrorFail
    \/ UpsertRead(MAIN) \/ UpsertOpen(MAIN) \/ UpsertDump(MAIN)
    \/ UpsertFlush(MAIN) \/ UpsertReplace(MAIN) \/ UpsertFail(MAIN)

\* the loop and the runs are sequential code: a step that can be taken is
\* taken
SpecSync ==
    InitSync /\ [][NextSync]_vars /\ WF_call(SyncLoop) /\ WF_vars(DiscoverSteps)

\* the two normalizations applied, and applied again
NextNormalize ==
    \/ NormalizeUrl
    \/ UrljoinSafe

SpecNormalize == InitNormalize /\ [][NextNormalize]_vars

\* one crawl, turn by turn
NextCrawl ==
    \/ CrawlStep
    \/ CrawlReturn

\* the loop is sequential code: a turn that can be taken is taken
SpecCrawl == InitCrawl /\ [][NextCrawl]_vars /\ WF_call(NextCrawl)

====
